---- MODULE Spec2Model ----
(***************************************************************************)
(* State-machine model of the threveal core: the EventStore (analysis),    *)
(* the PmuSampler (collection) and the MigrationTracker with its in-kernel *)
(* handler (collection / bpf).  Each subsystem has its own specification;  *)
(* a specification leaves the variables of the other subsystems alone.     *)
(***************************************************************************)
EXTENDS Integers, Sequences, FiniteSets, TLC

(***************************************************************************)
(* Bounds of the model.                                                    *)
(***************************************************************************)
\* largest timestamp_ns an inserted event carries (timestamps are 1..MaxTs)
MaxTs == 2
\* events held by the store (migrations plus PMU samples) before a clear
MaxEvents == 3
\* value at which the modelled hardware counter of the PMU group stops counting
MaxCycles == 2
\* samples one sampling session delivers at most
MaxSamples == 2
\* worker threads a sampler launches at most over its life
MaxStarts == 2
\* process ids seen by the in-kernel handler are 1..MaxPid
MaxPid == 2
\* last tick of the kernel's monotonic clock; the tracepoint fires once per tick
MaxKtime == 4
\* records the kernel ring buffer holds before a reservation fails
MaxRing == 2
\* perf-event descriptors the kernel hands out at most
MaxFds == 10
\* bits of a CpuId
CpuIdBits == 3
\* characters of the longest text the CPU-list parser is run on
MaxText == 5
\* CPU ids in the longest list a TopologyMap is constructed from
MaxList == 2
\* records the handlers reserve in a run
MaxRecords == 3
\* MigrationTracker::create calls in a run
MaxTrackers == 2

\* sizeof(struct migration_event), the wire size of a ring-buffer record
WireSize == 40

\* PmuSampler::kMinInterval and PmuSampler::kDefaultInterval, in microseconds
kMinInterval == 100
kDefaultInterval == 1000

VARIABLES
    migrations_,    \* EventStore::migrations_   (std::vector<MigrationEvent>)
    pmu_samples_,   \* EventStore::pmu_samples_  (std::vector<PmuSample>)
    store_call,     \* the last call on the store: its arguments and what it returned
    passed          \* history: how often each event was passed to addMigration and
                    \* addPmuSample since construction or the last clear()

storeVars == <<migrations_, pmu_samples_, store_call, passed>>

VARIABLES
    running_,         \* PmuSampler::running_ (std::atomic<bool>)
    sample_count_,    \* PmuSampler::sample_count_ (std::atomic<uint64_t>)
    group_,           \* PmuSampler::group_: descriptors valid, counters enabled, counter value
    sampling_thread_, \* PmuSampler::sampling_thread_: "none" (not joinable) or the worker's position
    stop_requested,   \* stop state shared by sampling_thread_ and the worker's stop_token
    ctl_pc,           \* position of the controller thread inside stop()
    last_call,        \* the controller's last completed call on the sampler and its result
    callbacks,        \* history: callback invocations since the most recent successful start()
    launched,         \* history: worker threads launched since construction
    read_failed       \* history: a group read failed since the most recent successful start()

VARIABLES
    tid_,             \* PmuSampler::tid_
    callback_,        \* PmuSampler::callback_ holds a callable
    interval_,        \* PmuSampler::interval_, in microseconds
    create_call,      \* the PmuSampler::create call that built the sampler: arguments and result
    lifetime          \* "alive", inside the destructor ("destructing", "closing"), "destroyed"

\* what PmuSampler::create fixes
construction == <<tid_, callback_, interval_, create_call>>

samplerVars == <<running_, sample_count_, group_, sampling_thread_, stop_requested,
                 ctl_pc, last_call, callbacks, launched, read_failed, construction, lifetime>>

VARIABLES
    loader_,           \* MigrationTracker::loader_: skel_ non-null, attached_
    ring_buf_,         \* MigrationTracker::ring_buf_: non-null, and the ctx registered with it
    tracker_callback_, \* MigrationTracker::callback_ holds a callable
    event_count_,      \* MigrationTracker::event_count_
    tracker_running_,  \* MigrationTracker::running_
    events,            \* the kernel ring buffer map "events": submitted, not yet consumed records
    migration_config,  \* slot 0 of the configuration map: the target PID, 0 for no filter
    ktime,             \* the kernel's monotonic clock (bpf_ktime_get_ns)
    tracker_call,      \* the last call on the tracker and what it returned
    delivered,         \* the events the user callback was invoked with during the last poll()
    consumed_sizes,    \* history: the sizes of the records the last poll() consumed
    handler_log        \* history: the last run of the in-kernel handler: the process id
                       \* of the task it ran in and what it did

trackerVars == <<loader_, ring_buf_, tracker_callback_, event_count_, tracker_running_,
                 events, migration_config, ktime, tracker_call, delivered,
                 consumed_sizes, handler_log>>

VARIABLES
    ebpf_loader,       \* an EbpfLoader used on its own: skel_ non-null, attached_
    loader_call        \* the last call on it: whether it was attached then, and the result

loaderVars == <<ebpf_loader, loader_call>>

VARIABLES
    pmu_groups,        \* the PmuGroup objects: within their lifetime or not, and fds_
    pmu_counters,      \* the PmuCounter objects: within their lifetime or not, and fd_
    closes,            \* the kernel: close() calls on the n-th descriptor it handed out
    handle_call        \* the last call on a handle: its arguments, result and descriptor

handleVars == <<pmu_groups, pmu_counters, closes, handle_call>>

VARIABLES
    content,           \* the text parseCpuList is called on
    parse_result,      \* what the call returned
    topology,          \* the TopologyMap of the run, once it is built
    topology_call      \* the last call that built or queried it, and its result

topologyVars == <<content, parse_result, topology, topology_call>>

VARIABLES
    read_call          \* the last PmuGroup::read(): what the kernel did, and what was returned

readVars == <<read_call>>

VARIABLES
    ring_slots,        \* the events ring buffer, record by record: reserved, committed or not
    handler_pc,        \* per CPU: the record its handler has reserved and not yet submitted
    reserved,          \* history: the CPU of every record reserved, in order of reservation
    submitted,         \* history: the records in the order of bpf_ringbuf_submit
    handed             \* history: the records in the order ringBufferCallback received them

ringVars == <<ring_slots, handler_pc, reserved, submitted, handed>>

VARIABLES
    trackers,          \* the MigrationTracker objects: within their lifetime or not, members
    bpf_objects,       \* the kernel: per program created, ring_buffer__free and destroy calls
    released,          \* the release steps of the last destructor or move-assignment, in order
    life_call          \* the last call on a tracker object: arguments, state before, result

lifeVars == <<trackers, bpf_objects, released, life_call>>

VARIABLES
    samplers,          \* the PmuSampler objects: within their lifetime or not, members
    workers,           \* the workers launched: the object captured as this, position, stop state
    move_pc,           \* the controller inside a destructor or operator= that waits in join()
    move_call,         \* the last controller call on a sampler object and its result
    last_access,       \* the last iteration of a worker: which object it worked on
    crashed            \* the process was terminated

moveVars == <<samplers, workers, move_pc, move_call, last_access, crashed>>

vars == <<storeVars, samplerVars, trackerVars, loaderVars, handleVars, topologyVars, readVars, ringVars, lifeVars, moveVars>>

(***************************************************************************)
(* Data model (include/threveal/core/events.hpp).  The store orders by     *)
(* timestamp_ns and filters by tid; the other fields are payload it copies *)
(* and never inspects, so they are drawn from one-element sets.            *)
(***************************************************************************)
Timestamps == 1..MaxTs
\* the store only compares thread ids for equality: the queried thread and one other
Tids == {42, 43}
\* query arguments also lie before and after every stored timestamp
QueryTimes == 0..(MaxTs + 1)

MigrationEvent ==
    [timestamp_ns : Timestamps, pid : {1}, tid : Tids,
     src_cpu : {0}, dst_cpu : {1}, comm : {"app"}]

PmuSample ==
    [timestamp_ns : Timestamps, tid : Tids, cpu_id : {0},
     instructions : {0}, cycles : {0}, llc_misses : {0},
     llc_references : {0}, branch_misses : {0}]

\* a migration used as the argument of a correlation query
QueryMigration ==
    [timestamp_ns : QueryTimes, pid : {1}, tid : Tids,
     src_cpu : {0}, dst_cpu : {1}, comm : {"app"}]

(***************************************************************************)
(* std::ranges::lower_bound / upper_bound with the timestamp_ns projection *)
(* (binary search over positions first .. first+len-1, 1-based; the result *)
(* Len(s)+1 is the end iterator).                                          *)
(***************************************************************************)
RECURSIVE lower_bound_from(_, _, _, _)
lower_bound_from(s, value, first, len) ==
    IF len = 0 THEN first
    ELSE LET half == len \div 2
             mid  == first + half
         IN  IF s[mid].timestamp_ns < value
             THEN lower_bound_from(s, value, mid + 1, len - half - 1)
             ELSE lower_bound_from(s, value, first, half)

lower_bound(s, value) == lower_bound_from(s, value, 1, Len(s))

RECURSIVE upper_bound_from(_, _, _, _)
upper_bound_from(s, value, first, len) ==
    IF len = 0 THEN first
    ELSE LET half == len \div 2
             mid  == first + half
         IN  IF ~(value < s[mid].timestamp_ns)
             THEN upper_bound_from(s, value, mid + 1, len - half - 1)
             ELSE upper_bound_from(s, value, first, half)

upper_bound(s, value) == upper_bound_from(s, value, 1, Len(s))

\* mutation: an element equal to the one at the insertion point is not stored again
insert_dropsEqual(s, pos, e) ==
    IF pos <= Len(s) /\ s[pos] = e THEN s
    ELSE [i \in 1..(Len(s) + 1) |->
            IF i < pos THEN s[i] ELSE IF i = pos THEN e ELSE s[i - 1]]

\* std::vector::insert(pos, e): e ends up at position pos, the tail shifts right
insert(s, pos, e) ==
    [i \in 1..(Len(s) + 1) |->
        IF i < pos THEN s[i] ELSE IF i = pos THEN e ELSE s[i - 1]]

\* mutation: the event is appended, the insertion point is not searched
sortedInsert_append(s, e) == Append(s, e)

\* mutation: the event is put in front, the insertion point is not searched
sortedInsert_front(s, e) == <<e>> \o s

\* body shared by addMigration and addPmuSample: lower_bound, then insert there
sortedInsert(s, e) == insert(s, lower_bound(s, e.timestamp_ns), e)

(***************************************************************************)
(* Queries.                                                                *)
(***************************************************************************)
\* the loop of migrationsInRange: walk from position it, stop past end_ns
RECURSIVE rangeWalk(_, _, _)
rangeWalk(s, it, end_ns) ==
    IF it > Len(s) THEN <<>>
    ELSE IF s[it].timestamp_ns > end_ns THEN <<>>
    ELSE <<s[it]>> \o rangeWalk(s, it + 1, end_ns)

\* mutation: the walk stops at end_ns instead of past it (exclusive end)
migrationsInRange_exclusive(s, start_ns, end_ns) ==
    SelectSeq(rangeWalk(s, lower_bound(s, start_ns), end_ns),
              LAMBDA e : e.timestamp_ns < end_ns)

migrationsInRange(s, start_ns, end_ns) ==
    rangeWalk(s, lower_bound(s, start_ns), end_ns)

\* the reverse loop of pmuBeforeMigration; an optional is <<>> or <<sample>>
RECURSIVE walkBackward(_, _, _)
walkBackward(s, it, tid) ==
    IF it < 1 THEN <<>>
    ELSE IF s[it].tid = tid THEN <<s[it]>>
    ELSE walkBackward(s, it - 1, tid)

\* mutation: the bound is lower_bound, a sample at the migration's time is missed
pmuBeforeMigration_strict(s, migration) ==
    IF Len(s) = 0 THEN <<>>
    ELSE walkBackward(s, lower_bound(s, migration.timestamp_ns) - 1, migration.tid)

pmuBeforeMigration(s, migration) ==
    IF Len(s) = 0 THEN <<>>
    ELSE walkBackward(s, upper_bound(s, migration.timestamp_ns) - 1, migration.tid)

\* the forward loop of pmuAfterMigration
RECURSIVE walkForward(_, _, _)
walkForward(s, it, tid) ==
    IF it > Len(s) THEN <<>>
    ELSE IF s[it].tid = tid THEN <<s[it]>>
    ELSE walkForward(s, it + 1, tid)

\* mutation: the first sample at or after the bound is returned without the tid test
pmuAfterMigration_anyTid(s, migration) ==
    IF Len(s) = 0 THEN <<>>
    ELSE LET lower == lower_bound(s, migration.timestamp_ns)
         IN  IF lower > Len(s) THEN <<>> ELSE <<s[lower]>>

pmuAfterMigration(s, migration) ==
    IF Len(s) = 0 THEN <<>>
    ELSE walkForward(s, lower_bound(s, migration.timestamp_ns), migration.tid)

\* the record of a call: op, the timestamps and tid of its argument(s), and the
\* result (range for migrationsInRange, sample for the two correlation queries)
Call(op, start_ns, end_ns, tid, range, sample) ==
    [op |-> op, start_ns |-> start_ns, end_ns |-> end_ns, tid |-> tid,
     range |-> range, sample |-> sample]

(***************************************************************************)
(* EventStore: initial state and operations.                               *)
(***************************************************************************)
otherThanStore == <<samplerVars, trackerVars, loaderVars, handleVars, topologyVars, readVars, ringVars, lifeVars, moveVars>>

\* no event was passed to the store yet
NothingPassed ==
    [migrations |-> [e \in MigrationEvent |-> 0], pmu_samples |-> [e \in PmuSample |-> 0]]

InitStore ==
    /\ migrations_ = <<>>
    /\ pmu_samples_ = <<>>
    /\ store_call = Call("EventStore", 0, 0, 0, <<>>, <<>>)
    /\ passed = NothingPassed

addMigration(event) ==
    /\ Len(migrations_) + Len(pmu_samples_) < MaxEvents
    /\ migrations_' = sortedInsert(migrations_, event)
    /\ store_call' = Call("addMigration", event.timestamp_ns, event.timestamp_ns, event.tid,
                          <<>>, <<>>)
    /\ passed' = [passed EXCEPT !.migrations[event] = @ + 1]
    /\ UNCHANGED pmu_samples_
    /\ UNCHANGED otherThanStore

addPmuSample(sample) ==
    /\ Len(migrations_) + Len(pmu_samples_) < MaxEvents
    /\ pmu_samples_' = sortedInsert(pmu_samples_, sample)
    /\ store_call' = Call("addPmuSample", sample.timestamp_ns, sample.timestamp_ns, sample.tid,
                          <<>>, <<>>)
    /\ passed' = [passed EXCEPT !.pmu_samples[sample] = @ + 1]
    /\ UNCHANGED migrations_
    /\ UNCHANGED otherThanStore

clear ==
    /\ migrations_' = <<>>
    /\ pmu_samples_' = <<>>
    /\ store_call' = Call("clear", 0, 0, 0, <<>>, <<>>)
    /\ passed' = NothingPassed
    /\ UNCHANGED otherThanStore

queryMigrationsInRange(start_ns, end_ns) ==
    /\ store_call' = Call("migrationsInRange", start_ns, end_ns, 0,
                          migrationsInRange(migrations_, start_ns, end_ns), <<>>)
    /\ UNCHANGED <<migrations_, pmu_samples_, passed>>
    /\ UNCHANGED otherThanStore

queryPmuBeforeMigration(migration) ==
    /\ store_call' = Call("pmuBeforeMigration", migration.timestamp_ns, migration.timestamp_ns,
                          migration.tid, <<>>, pmuBeforeMigration(pmu_samples_, migration))
    /\ UNCHANGED <<migrations_, pmu_samples_, passed>>
    /\ UNCHANGED otherThanStore

queryPmuAfterMigration(migration) ==
    /\ store_call' = Call("pmuAfterMigration", migration.timestamp_ns, migration.timestamp_ns,
                          migration.tid, <<>>, pmuAfterMigration(pmu_samples_, migration))
    /\ UNCHANGED <<migrations_, pmu_samples_, passed>>
    /\ UNCHANGED otherThanStore

NextStore ==
    \/ \E event \in MigrationEvent : addMigration(event)
    \/ \E sample \in PmuSample : addPmuSample(sample)
    \/ clear
    \/ \E start_ns \in QueryTimes, end_ns \in QueryTimes :
           queryMigrationsInRange(start_ns, end_ns)
    \/ \E migration \in QueryMigration : queryPmuBeforeMigration(migration)
    \/ \E migration \in QueryMigration : queryPmuAfterMigration(migration)

(***************************************************************************)
(* PmuSampler (src/collection/pmu_sampler.cpp) over its PmuGroup           *)
(* (src/collection/pmu_group.cpp).  One sampler object, one controller     *)
(* thread calling start() and stop(), and the worker start() launches.     *)
(* The outcome of each ioctl and read on the group is an input.            *)
(***************************************************************************)
otherThanSampler == <<storeVars, trackerVars, loaderVars, handleVars, topologyVars, readVars, ringVars, lifeVars, moveVars>>

\* positions of the worker inside samplingLoop / collectSample
WorkerAlive == {"check", "read", "callback", "count", "sleep"}

\* PmuGroup::reset: InvalidState on an invalid group or a failing ioctl, else counters zeroed
groupReset(g, ioctl_ok) ==
    IF g.valid /\ ioctl_ok THEN [ok |-> TRUE, group |-> [g EXCEPT !.cycles = 0]]
    ELSE [ok |-> FALSE, group |-> g]

\* PmuGroup::enable
groupEnable(g, ioctl_ok) ==
    IF g.valid /\ ioctl_ok THEN [ok |-> TRUE, group |-> [g EXCEPT !.enabled = TRUE]]
    ELSE [ok |-> FALSE, group |-> g]

\* PmuGroup::disable
groupDisable(g, ioctl_ok) ==
    IF g.valid /\ ioctl_ok THEN [ok |-> TRUE, group |-> [g EXCEPT !.enabled = FALSE]]
    ELSE [ok |-> FALSE, group |-> g]

\* PmuSampler::create(42, callback) with the default interval: a valid group
\* opened disabled, nothing running, count 0
InitSampler ==
    /\ running_ = FALSE
    /\ sample_count_ = 0
    /\ group_ = [valid |-> TRUE, enabled |-> FALSE, cycles |-> 0]
    /\ sampling_thread_ = "none"
    /\ stop_requested = FALSE
    /\ ctl_pc = "idle"
    /\ last_call = [op |-> "none", result |-> "none", from |-> "none"]
    /\ callbacks = 0
    /\ launched = 0
    /\ read_failed = FALSE
    /\ tid_ = 42
    /\ callback_ = TRUE
    /\ interval_ = kDefaultInterval
    /\ create_call = [tid |-> 42, callback |-> TRUE, interval |-> kDefaultInterval,
                      result |-> "ok"]
    /\ lifetime = "alive"

\* the perf subsystem counts events of the target thread while the group is enabled
kernelCount ==
    /\ group_.enabled
    /\ group_.cycles < MaxCycles
    /\ group_' = [group_ EXCEPT !.cycles = @ + 1]
    /\ UNCHANGED <<running_, sample_count_, sampling_thread_, stop_requested,
                   ctl_pc, last_call, callbacks, launched, read_failed>>
    /\ UNCHANGED <<construction, lifetime>>
    /\ UNCHANGED otherThanSampler

\* mutation: the running check is missing, start() always sets up and launches
start_noRunningCheck(reset_ok, enable_ok) ==
    /\ lifetime = "alive"
    /\ ctl_pc = "idle"
    /\ launched < MaxStarts
    /\ group_' = [group_ EXCEPT !.cycles = 0, !.enabled = TRUE]
    /\ sample_count_' = 0
    /\ callbacks' = 0
    /\ running_' = TRUE
    /\ sampling_thread_' = "check"
    /\ stop_requested' = FALSE
    /\ launched' = launched + 1
    /\ read_failed' = FALSE
    /\ last_call' = [op |-> "start", result |-> "ok", from |-> "none"]
    /\ UNCHANGED ctl_pc
    /\ UNCHANGED <<construction, lifetime>>
    /\ UNCHANGED otherThanSampler

\* mutation: the result of enable() is not looked at
start_enableUnchecked(reset_ok, enable_ok) ==
    /\ lifetime = "alive"
    /\ ctl_pc = "idle"
    /\ ~running_
    /\ groupReset(group_, reset_ok).ok
    /\ launched < MaxStarts
    /\ group_' = groupEnable(groupReset(group_, reset_ok).group, enable_ok).group
    /\ sample_count_' = 0
    /\ callbacks' = 0
    /\ running_' = TRUE
    /\ sampling_thread_' = "check"
    /\ stop_requested' = FALSE
    /\ launched' = launched + 1
    /\ read_failed' = FALSE
    /\ last_call' = [op |-> "start", result |-> "ok", from |-> "none"]
    /\ UNCHANGED ctl_pc
    /\ UNCHANGED <<construction, lifetime>>
    /\ UNCHANGED otherThanSampler

\* mutation: the sample counter is not zeroed for the new session
start_countNotZeroed(reset_ok, enable_ok) ==
    /\ lifetime = "alive"
    /\ ctl_pc = "idle"
    /\ ~running_
    /\ groupReset(group_, reset_ok).ok
    /\ groupEnable(groupReset(group_, reset_ok).group, enable_ok).ok
    /\ launched < MaxStarts
    /\ group_' = groupEnable(groupReset(group_, reset_ok).group, enable_ok).group
    /\ callbacks' = 0
    /\ running_' = TRUE
    /\ sampling_thread_' = "check"
    /\ stop_requested' = FALSE
    /\ launched' = launched + 1
    /\ read_failed' = FALSE
    /\ last_call' = [op |-> "start", result |-> "ok", from |-> "none"]
    /\ UNCHANGED <<sample_count_, ctl_pc>>
    /\ UNCHANGED <<construction, lifetime>>
    /\ UNCHANGED otherThanSampler

\* PmuSampler::start
start(reset_ok, enable_ok) ==
    /\ lifetime = "alive"
    /\ ctl_pc = "idle"
    /\ LET reset_result  == groupReset(group_, reset_ok)
           enable_result == groupEnable(reset_result.group, enable_ok)
       IN  IF running_
           THEN \* already running
                /\ last_call' = [op |-> "start", result |-> "InvalidState", from |-> "running"]
                /\ UNCHANGED <<running_, sample_count_, group_, sampling_thread_,
                               stop_requested, callbacks, launched, read_failed>>
           ELSE IF ~reset_result.ok
           THEN /\ last_call' = [op |-> "start", result |-> "InvalidState", from |-> "reset"]
                /\ UNCHANGED <<running_, sample_count_, group_, sampling_thread_,
                               stop_requested, callbacks, launched, read_failed>>
           ELSE IF ~enable_result.ok
           THEN /\ group_' = reset_result.group
                /\ last_call' = [op |-> "start", result |-> "InvalidState", from |-> "enable"]
                /\ UNCHANGED <<running_, sample_count_, sampling_thread_,
                               stop_requested, callbacks, launched, read_failed>>
           ELSE /\ launched < MaxStarts
                /\ group_' = enable_result.group
                /\ sample_count_' = 0
                /\ callbacks' = 0
                /\ running_' = TRUE
                \* a new std::jthread with its own stop state, about to enter samplingLoop
                /\ sampling_thread_' = "check"
                /\ stop_requested' = FALSE
                /\ launched' = launched + 1
                /\ read_failed' = FALSE
                /\ last_call' = [op |-> "start", result |-> "ok", from |-> "none"]
    /\ UNCHANGED ctl_pc
    /\ UNCHANGED <<construction, lifetime>>
    /\ UNCHANGED otherThanSampler

\* mutation: stop() does not look at running_
stopCall_noRunningCheck ==
    /\ ctl_pc = "idle"
    /\ IF sampling_thread_ # "none"
       THEN /\ stop_requested' = TRUE
            /\ ctl_pc' = "joining"
       ELSE /\ ctl_pc' = "disabling"
            /\ UNCHANGED stop_requested
    /\ UNCHANGED <<running_, sample_count_, group_, sampling_thread_, callbacks, launched, read_failed,
                   last_call>>
    /\ UNCHANGED construction
    /\ UNCHANGED otherThanSampler

\* PmuSampler::stop up to the join: no-op when not running, else request_stop()
stopCall ==
    /\ ctl_pc = "idle"
    /\ IF ~running_
       THEN /\ last_call' = [op |-> "stop", result |-> "noop", from |-> "none"]
            /\ UNCHANGED <<stop_requested, ctl_pc>>
       ELSE IF sampling_thread_ # "none"
       THEN /\ stop_requested' = TRUE
            /\ ctl_pc' = "joining"
            /\ UNCHANGED last_call
       ELSE /\ ctl_pc' = "disabling"
            /\ UNCHANGED <<stop_requested, last_call>>
    /\ UNCHANGED <<running_, sample_count_, group_, sampling_thread_, callbacks, launched, read_failed>>
    /\ UNCHANGED construction
    /\ UNCHANGED otherThanSampler

\* a call of stop() on the sampler
stop ==
    /\ lifetime = "alive"
    /\ stopCall
    /\ UNCHANGED lifetime

\* mutation: the worker is not waited for (detached instead of joined)
stopJoin_noWait ==
    /\ ctl_pc = "joining"
    /\ ctl_pc' = "disabling"
    /\ UNCHANGED <<running_, sample_count_, group_, sampling_thread_, stop_requested,
                   last_call, callbacks, launched, read_failed>>
    /\ UNCHANGED <<construction, lifetime>>
    /\ UNCHANGED otherThanSampler

\* sampling_thread_.join() returns: the worker has left samplingLoop
stopJoin ==
    /\ ctl_pc = "joining"
    /\ sampling_thread_ = "exited"
    /\ sampling_thread_' = "none"
    /\ ctl_pc' = "disabling"
    /\ UNCHANGED <<running_, sample_count_, group_, stop_requested,
                   last_call, callbacks, launched, read_failed>>
    /\ UNCHANGED <<construction, lifetime>>
    /\ UNCHANGED otherThanSampler

\* the rest of PmuSampler::stop: disable the group, ignore the result, mark stopped
stopDisable(disable_ok) ==
    /\ ctl_pc = "disabling"
    /\ group_' = groupDisable(group_, disable_ok).group
    /\ running_' = FALSE
    /\ ctl_pc' = "idle"
    /\ last_call' = [op |-> "stop", result |-> "stopped",
                     from |-> IF groupDisable(group_, disable_ok).ok THEN "none" ELSE "disable"]
    /\ UNCHANGED <<sample_count_, sampling_thread_, stop_requested, callbacks, launched, read_failed>>
    /\ UNCHANGED <<construction, lifetime>>
    /\ UNCHANGED otherThanSampler

\* mutation: the loop condition never looks at the stop token
workerCheck_ignoresStop ==
    /\ sampling_thread_ = "check"
    /\ sampling_thread_' = "read"
    /\ UNCHANGED <<running_, sample_count_, group_, stop_requested, ctl_pc,
                   last_call, callbacks, launched, read_failed>>
    /\ UNCHANGED <<construction, lifetime>>
    /\ UNCHANGED otherThanSampler

\* samplingLoop: the while condition
workerCheck ==
    /\ sampling_thread_ = "check"
    /\ sampling_thread_' = IF stop_requested THEN "exited" ELSE "read"
    /\ UNCHANGED <<running_, sample_count_, group_, stop_requested, ctl_pc,
                   last_call, callbacks, launched, read_failed>>
    /\ UNCHANGED <<construction, lifetime>>
    /\ UNCHANGED otherThanSampler

\* mutation: a failed read ends the sampling loop
workerRead_failureEndsLoop(read_ok) ==
    /\ sampling_thread_ = "read"
    /\ IF group_.valid /\ read_ok
       THEN /\ callbacks < MaxSamples
            /\ sampling_thread_' = "callback"
            /\ UNCHANGED read_failed
       ELSE /\ sampling_thread_' = "exited"
            /\ read_failed' = TRUE
    /\ UNCHANGED <<running_, sample_count_, group_, stop_requested, ctl_pc,
                   last_call, callbacks, launched>>
    /\ UNCHANGED <<construction, lifetime>>
    /\ UNCHANGED otherThanSampler

\* collectSample: group_.read(); a failed read skips the sample
workerRead(read_ok) ==
    /\ sampling_thread_ = "read"
    /\ IF group_.valid /\ read_ok
       THEN /\ callbacks < MaxSamples
            /\ sampling_thread_' = "callback"
            /\ UNCHANGED read_failed
       ELSE /\ sampling_thread_' = "sleep"
            /\ read_failed' = TRUE
    /\ UNCHANGED <<running_, sample_count_, group_, stop_requested, ctl_pc,
                   last_call, callbacks, launched>>
    /\ UNCHANGED <<construction, lifetime>>
    /\ UNCHANGED otherThanSampler

\* collectSample: callback_(sample), then return true
workerCallback ==
    /\ sampling_thread_ = "callback"
    /\ callbacks' = callbacks + 1
    /\ sampling_thread_' = "count"
    /\ UNCHANGED <<running_, sample_count_, group_, stop_requested, ctl_pc,
                   last_call, launched, read_failed>>
    /\ UNCHANGED <<construction, lifetime>>
    /\ UNCHANGED otherThanSampler

\* samplingLoop: sample_count_.fetch_add(1)
workerCount ==
    /\ sampling_thread_ = "count"
    /\ sample_count_' = sample_count_ + 1
    /\ sampling_thread_' = "sleep"
    /\ UNCHANGED <<running_, group_, stop_requested, ctl_pc, last_call, callbacks, launched, read_failed>>
    /\ UNCHANGED <<construction, lifetime>>
    /\ UNCHANGED otherThanSampler

\* samplingLoop: sleep_for(interval_), then back to the while condition
workerSleep ==
    /\ sampling_thread_ = "sleep"
    /\ sampling_thread_' = "check"
    /\ UNCHANGED <<running_, sample_count_, group_, stop_requested, ctl_pc,
                   last_call, callbacks, launched, read_failed>>
    /\ UNCHANGED <<construction, lifetime>>
    /\ UNCHANGED otherThanSampler

NextSampler ==
    \/ \E reset_ok \in BOOLEAN, enable_ok \in BOOLEAN : start(reset_ok, enable_ok)
    \/ stop
    \/ stopJoin
    \/ \E disable_ok \in BOOLEAN : stopDisable(disable_ok)
    \/ workerCheck
    \/ \E read_ok \in BOOLEAN : workerRead(read_ok)
    \/ workerCallback
    \/ workerCount
    \/ workerSleep
    \/ kernelCount

(***************************************************************************)
(* The life of the sampler object: PmuSampler::create, the destructor and  *)
(* the sampler as the source of a move.  One sampler object exists at a    *)
(* time; create() builds the next one once the previous one is destroyed.  *)
(***************************************************************************)
\* target threads: 0 is the calling thread
SamplerTids == {0, 42}
\* the interval argument of create(), in microseconds; an omitted argument is
\* the default argument kDefaultInterval
RequestedIntervals ==
    {0, 10, kMinInterval - 1, kMinInterval, kMinInterval + 1, kDefaultInterval,
     2 * kDefaultInterval}
\* results of PmuGroup::create: success or an error of perf_event_open
GroupCreateResults == {"ok", "PermissionDenied", "OpenFailed"}

\* mutation: the requested interval is stored as it is
clampInterval_asRequested(interval) == interval

\* PmuSampler::create: an interval below kMinInterval is raised to kMinInterval
clampInterval(interval) ==
    IF interval < kMinInterval THEN kMinInterval ELSE interval

\* PmuSampler::create(tid, callback, interval), group_result being what PmuGroup::create returns
create(tid, callback, interval, group_result) ==
    /\ lifetime = "destroyed"
    /\ LET result == IF ~callback THEN "InvalidState" ELSE group_result
       IN  /\ create_call' = [tid |-> tid, callback |-> callback, interval |-> interval,
                              result |-> result]
           /\ IF result # "ok"
              THEN UNCHANGED <<running_, sample_count_, group_, sampling_thread_,
                               stop_requested, ctl_pc, last_call, callbacks, launched, read_failed,
                               tid_, callback_, interval_, lifetime>>
              ELSE /\ tid_' = tid
                   /\ group_' = [valid |-> TRUE, enabled |-> FALSE, cycles |-> 0]
                   /\ callback_' = TRUE
                   /\ interval_' = clampInterval(interval)
                   /\ sampling_thread_' = "none"
                   /\ stop_requested' = FALSE
                   /\ sample_count_' = 0
                   /\ running_' = FALSE
                   /\ ctl_pc' = "idle"
                   /\ last_call' = [op |-> "none", result |-> "none", from |-> "none"]
                   /\ callbacks' = 0
                   /\ launched' = 0
                   /\ read_failed' = FALSE
                   /\ lifetime' = "alive"
    /\ UNCHANGED otherThanSampler

\* mutation: the destructor goes straight to the destruction of the members
destructor_noStop ==
    /\ lifetime = "alive"
    /\ ctl_pc = "idle"
    /\ lifetime' = "destructing"
    /\ UNCHANGED <<running_, sample_count_, group_, sampling_thread_, stop_requested,
                   ctl_pc, last_call, callbacks, launched, read_failed>>
    /\ UNCHANGED construction
    /\ UNCHANGED otherThanSampler

\* PmuSampler::~PmuSampler: stop(); its join and disable are stopJoin and stopDisable
destructor ==
    /\ lifetime = "alive"
    /\ stopCall
    /\ lifetime' = "destructing"

\* after stop() has returned the members are destroyed in reverse order of
\* declaration; ~jthread on sampling_thread_ requests a stop and joins if joinable
destroyThread ==
    /\ lifetime = "destructing"
    /\ ctl_pc = "idle"
    /\ IF sampling_thread_ \in WorkerAlive
       THEN /\ ~stop_requested
            /\ stop_requested' = TRUE
            /\ UNCHANGED <<sampling_thread_, lifetime>>
       ELSE /\ sampling_thread_' = "none"
            /\ lifetime' = "closing"
            /\ UNCHANGED stop_requested
    /\ UNCHANGED <<running_, sample_count_, group_, ctl_pc, last_call, callbacks, launched, read_failed>>
    /\ UNCHANGED construction
    /\ UNCHANGED otherThanSampler

\* PmuGroup::closeAll: every descriptor closed and set to kInvalidFd
closeAll(g) == [valid |-> FALSE, enabled |-> FALSE, cycles |-> 0]

\* ... then callback_ and group_: ~PmuGroup closes the descriptors
destroyGroup ==
    /\ lifetime = "closing"
    /\ group_' = closeAll(group_)
    /\ callback_' = FALSE
    /\ lifetime' = "destroyed"
    /\ UNCHANGED <<running_, sample_count_, sampling_thread_, stop_requested, ctl_pc,
                   last_call, callbacks, launched, read_failed, tid_, interval_, create_call>>
    /\ UNCHANGED otherThanSampler

\* The sampler is the source of a move (PmuSampler(PmuSampler&&) or operator=)
\* while it is not running: the group's descriptors and the callback go to the
\* destination, tid_, sample_count_ and running_ are invalidated, interval_ is
\* left as it is.  A moved-from std::function is valid but unspecified.
moveFrom(callback_left) ==
    /\ lifetime = "alive"
    /\ ctl_pc = "idle"
    /\ ~running_
    /\ tid_' = 0
    /\ group_' = [valid |-> FALSE, enabled |-> FALSE, cycles |-> 0]
    /\ callback_' = callback_left
    /\ sampling_thread_' = "none"
    /\ sample_count_' = 0
    /\ running_' = FALSE
    /\ last_call' = [op |-> "move", result |-> "moved-from", from |-> "none"]
    /\ UNCHANGED <<stop_requested, ctl_pc, callbacks, launched, read_failed, interval_, create_call,
                   lifetime>>
    /\ UNCHANGED otherThanSampler

NextSamplerLife ==
    \/ NextSampler
    \/ \E tid \in SamplerTids, callback \in BOOLEAN, interval \in RequestedIntervals,
          group_result \in GroupCreateResults : create(tid, callback, interval, group_result)
    \/ destructor
    \/ destroyThread
    \/ destroyGroup
    \/ \E callback_left \in BOOLEAN : moveFrom(callback_left)

(***************************************************************************)
(* MigrationTracker (src/collection/migration_tracker.cpp) over its        *)
(* EbpfLoader (src/collection/ebpf_loader.cpp), and the in-kernel handler  *)
(* (bpf/migration_tracker.bpf.c) that fills the ring buffer.               *)
(***************************************************************************)
otherThanTracker == <<storeVars, samplerVars, loaderVars, handleVars, topologyVars, readVars, ringVars, lifeVars, moveVars>>

KernelPids == 1..MaxPid
\* a process has its main thread (tid = pid); process 1 has one more thread
KernelTids(pid) == IF pid = 1 THEN {pid, pid + MaxPid} ELSE {pid}
KernelCpus == 0..1
\* the migrations the scheduler performs at tick t, as <<orig_cpu, dest_cpu>>:
\* tasks go from CPU 0 to CPU 1 at even ticks and back at odd ticks
MigrationsAt(t) == {<<t % 2, (t + 1) % 2>>}
\* errno of a failing attach; "none" is success
AttachErrnos == {"none", "EPERM", "EACCES", "EINVAL"}

\* the 16-byte command name of a process
CommOf(pid) == <<"comm", pid>>

\* errnoToEbpfError
errnoToEbpfError(err) ==
    IF err = "EPERM" \/ err = "EACCES" THEN "PermissionDenied" ELSE "LoadFailed"

\* MigrationTracker::create with a non-empty callback, all setup steps succeeding:
\* the consumer is created by ring_buffer__new(ring_fd, ringBufferCallback, nullptr, nullptr)
InitTracker ==
    /\ loader_ = [skel |-> TRUE, attached |-> FALSE]
    /\ ring_buf_ = [valid |-> TRUE, ctx |-> "nullptr"]
    /\ tracker_callback_ = TRUE
    /\ event_count_ = 0
    /\ tracker_running_ = FALSE
    /\ events = <<>>
    /\ migration_config = 0
    /\ ktime = 0
    /\ tracker_call = [op |-> "create", result |-> "ok"]
    /\ delivered = <<>>
    /\ consumed_sizes = <<>>
    /\ handler_log = [pid |-> 0, outcome |-> "none"]

\* mutation: an attached loader attaches again
attach_again(l, err) ==
    IF ~l.skel THEN [result |-> "InvalidState", loader |-> l]
    ELSE IF err # "none" THEN [result |-> errnoToEbpfError(err), loader |-> l]
    ELSE [result |-> "ok", loader |-> [l EXCEPT !.attached = TRUE]]

\* EbpfLoader::attach: the result and the loader afterwards
attach(l, err) ==
    IF ~l.skel THEN [result |-> "InvalidState", loader |-> l]
    ELSE IF l.attached THEN [result |-> "ok", loader |-> l]
    ELSE IF err # "none" THEN [result |-> errnoToEbpfError(err), loader |-> l]
    ELSE [result |-> "ok", loader |-> [l EXCEPT !.attached = TRUE]]

\* EbpfLoader::detach
detach(l) ==
    IF ~l.skel \/ ~l.attached THEN l ELSE [l EXCEPT !.attached = FALSE]

\* MigrationTracker::start
trackerStart(err) ==
    /\ IF tracker_running_
       THEN /\ tracker_call' = [op |-> "start", result |-> "ok"]
            /\ UNCHANGED <<loader_, tracker_running_>>
       ELSE LET result == attach(loader_, err)
            IN  /\ loader_' = result.loader
                /\ tracker_running_' = (result.result = "ok")
                /\ tracker_call' = [op |-> "start", result |-> result.result]
    /\ UNCHANGED <<ring_buf_, tracker_callback_, event_count_, events, migration_config,
                   ktime, delivered, consumed_sizes, handler_log>>
    /\ UNCHANGED otherThanTracker

\* mutation: stop() also discards what the ring buffer holds
trackerStop_emptiesRing ==
    /\ IF ~tracker_running_
       THEN UNCHANGED <<loader_, tracker_running_>>
       ELSE /\ loader_' = detach(loader_)
            /\ tracker_running_' = FALSE
    /\ events' = <<>>
    /\ tracker_call' = [op |-> "stop", result |-> "ok"]
    /\ UNCHANGED <<ring_buf_, tracker_callback_, event_count_, migration_config,
                   ktime, delivered, consumed_sizes, handler_log>>
    /\ UNCHANGED otherThanTracker

\* MigrationTracker::stop
trackerStop ==
    /\ IF ~tracker_running_
       THEN UNCHANGED <<loader_, tracker_running_>>
       ELSE /\ loader_' = detach(loader_)
            /\ tracker_running_' = FALSE
    /\ tracker_call' = [op |-> "stop", result |-> "ok"]
    /\ UNCHANGED <<ring_buf_, tracker_callback_, event_count_, events, migration_config,
                   ktime, delivered, consumed_sizes, handler_log>>
    /\ UNCHANGED otherThanTracker

\* MigrationTracker::setTargetPid / EbpfLoader::setTargetPid; pid 0 stands for nullopt
setTargetPid(pid, update_ok) ==
    /\ IF ~loader_.skel
       THEN /\ tracker_call' = [op |-> "setTargetPid", result |-> "InvalidState"]
            /\ UNCHANGED migration_config
       ELSE IF ~update_ok
       THEN /\ tracker_call' = [op |-> "setTargetPid", result |-> "MapAccessFailed"]
            /\ UNCHANGED migration_config
       ELSE /\ tracker_call' = [op |-> "setTargetPid", result |-> "ok"]
            /\ migration_config' = pid
    /\ UNCHANGED <<loader_, ring_buf_, tracker_callback_, event_count_, tracker_running_,
                   events, ktime, delivered, consumed_sizes, handler_log>>
    /\ UNCHANGED otherThanTracker

\* the tasks of the system: a process id and a thread id each
KernelTasks ==
    UNION {{[pid |-> pid, tid |-> tid] : tid \in KernelTids(pid)} : pid \in KernelPids}

\* mutation: the handler does not look at the configured target
passesFilter_ignoresTarget(target_pid, pid) == TRUE

\* handle_sched_migrate_task, the PID filter: slot 0 of migration_config is 0,
\* or equals the process id of the current task
passesFilter(target_pid, pid) ==
    ~(target_pid # 0 /\ pid # target_pid)

\* mutation: a full ring makes room by giving up its oldest record
reserveAndSubmit_overwritesOldest(ring, record) ==
    IF Len(ring) >= MaxRing THEN Append(Tail(ring), record) ELSE Append(ring, record)

\* handle_sched_migrate_task from bpf_ringbuf_reserve to bpf_ringbuf_submit:
\* the ring after the handler, which gives up when there is no room
reserveAndSubmit(ring, record) ==
    IF Len(ring) >= MaxRing THEN ring ELSE Append(ring, record)

\* the tracepoint sched:sched_migrate_task fires while the program is attached:
\* handle_sched_migrate_task runs in the context of the task `current`
\* (bpf_get_current_pid_tgid, bpf_get_current_comm) for the migration of the
\* task `migrated` from orig_cpu to dest_cpu (the tracepoint's ctx)
handle_sched_migrate_task(current, migrated, orig_cpu, dest_cpu) ==
    /\ loader_.attached
    /\ ktime < MaxKtime
    /\ ktime' = ktime + 1
    /\ IF ~passesFilter(migration_config, current.pid)
       THEN \* filtered out
            /\ UNCHANGED events
            /\ handler_log' = [pid |-> current.pid, outcome |-> "filtered"]
       ELSE /\ events' = reserveAndSubmit(events,
                [size |-> WireSize, timestamp_ns |-> ktime', pid |-> current.pid,
                 tid |-> current.tid, src_cpu |-> orig_cpu, dst_cpu |-> dest_cpu,
                 comm |-> CommOf(current.pid)])
            /\ handler_log' = [pid |-> current.pid,
                               outcome |-> IF Len(events) >= MaxRing
                                           THEN "dropped" ELSE "submitted"]
    /\ UNCHANGED <<loader_, ring_buf_, tracker_callback_, event_count_, tracker_running_,
                   migration_config, tracker_call, delivered, consumed_sizes>>
    /\ UNCHANGED otherThanTracker

\* the MigrationEvent ringBufferCallback builds from a raw record
toMigrationEvent(raw_event) ==
    [timestamp_ns |-> raw_event.timestamp_ns, pid |-> raw_event.pid, tid |-> raw_event.tid,
     src_cpu |-> raw_event.src_cpu, dst_cpu |-> raw_event.dst_cpu, comm |-> raw_event.comm]

\* mutation: the size of the record is not looked at
ringBufferCallback_noSizeCheck(st, ctx, data, size) ==
    IF ctx = "nullptr" \/ ~tracker_callback_ THEN st
    ELSE [delivered   |-> Append(st.delivered, toMigrationEvent(data)),
          event_count |-> st.event_count + 1]

\* MigrationTracker::ringBufferCallback(ctx, data, size); st = [delivered, event_count]
\* is what the user callback has received during this poll and event_count_
ringBufferCallback(st, ctx, data, size) ==
    IF size < WireSize THEN st
    ELSE IF ctx = "nullptr" \/ ~tracker_callback_ THEN st
    ELSE [delivered   |-> Append(st.delivered, toMigrationEvent(data)),
          event_count |-> st.event_count + 1]

\* ring_buffer__poll: the callback is run on every ready record, oldest first
RECURSIVE consumeAll(_, _, _)
consumeAll(st, ctx, records) ==
    IF records = <<>> THEN st
    ELSE consumeAll(ringBufferCallback(st, ctx, Head(records), Head(records).size),
                    ctx, Tail(records))

\* MigrationTracker::poll
poll ==
    /\ IF ~ring_buf_.valid
       THEN /\ tracker_call' = [op |-> "poll", result |-> -1]
            /\ UNCHANGED <<events, delivered, event_count_, consumed_sizes>>
       ELSE LET st == consumeAll([delivered |-> <<>>, event_count |-> event_count_],
                                 ring_buf_.ctx, events)
            IN  /\ delivered' = st.delivered
                /\ event_count_' = st.event_count
                /\ events' = <<>>
                /\ consumed_sizes' = [i \in 1..Len(events) |-> events[i].size]
                /\ tracker_call' = [op |-> "poll", result |-> Len(events)]
    /\ UNCHANGED <<loader_, ring_buf_, tracker_callback_, tracker_running_,
                   migration_config, ktime, handler_log>>
    /\ UNCHANGED otherThanTracker

NextTracker ==
    \/ \E err \in AttachErrnos : trackerStart(err)
    \/ trackerStop
    \/ \E pid \in 0..MaxPid, update_ok \in BOOLEAN : setTargetPid(pid, update_ok)
    \/ \E current \in KernelTasks, migrated \in KernelTasks :
           \E cpus \in MigrationsAt(ktime) :
               handle_sched_migrate_task(current, migrated, cpus[1], cpus[2])
    \/ poll

\* the ctx argument of ringBufferCallback: no tracker, or this tracker
CallbackContexts == {"nullptr", "tracker"}
\* sizes of records other than sizeof(struct migration_event)
RawSizes == {0, WireSize - 1, WireSize + 1}

\* The ring buffer map holds a record the handler did not write: size bytes,
\* whatever their content.  ringBufferCallback receives it like any other.
rawSubmit(size) ==
    /\ ring_buf_.valid
    /\ ktime < MaxKtime
    /\ Len(events) < MaxRing
    /\ ktime' = ktime + 1
    /\ events' = Append(events,
            [size |-> size, timestamp_ns |-> ktime', pid |-> 0, tid |-> 0,
             src_cpu |-> 0, dst_cpu |-> 0, comm |-> CommOf(0)])
    /\ UNCHANGED <<loader_, ring_buf_, tracker_callback_, event_count_, tracker_running_,
                   migration_config, tracker_call, delivered, consumed_sizes, handler_log>>
    /\ UNCHANGED otherThanTracker

\* the tracker without a PID filter, over a ring that also receives such records
NextTrackerRaw ==
    \/ \E err \in AttachErrnos : trackerStart(err)
    \/ trackerStop
    \/ \E current \in KernelTasks, migrated \in KernelTasks :
           \E cpus \in MigrationsAt(ktime) :
               handle_sched_migrate_task(current, migrated, cpus[1], cpus[2])
    \/ \E size \in RawSizes : rawSubmit(size)
    \/ poll

(***************************************************************************)
(* An EbpfLoader used directly (src/collection/ebpf_loader.cpp), next to   *)
(* the tracker, which drives a loader of its own.                          *)
(***************************************************************************)
otherThanLoader == <<storeVars, samplerVars, trackerVars, handleVars, topologyVars, readVars, ringVars, lifeVars, moveVars>>

\* EbpfLoader::create succeeded: program loaded, not attached
InitLoader ==
    /\ ebpf_loader = [skel |-> TRUE, attached |-> FALSE]
    /\ loader_call = [op |-> "create", attached |-> FALSE, result |-> "ok"]

\* a call of EbpfLoader::attach; err is what migration_tracker_bpf__attach would return
loaderAttach(err) ==
    /\ ebpf_loader' = attach(ebpf_loader, err).loader
    /\ loader_call' = [op |-> "attach", attached |-> ebpf_loader.attached,
                       result |-> attach(ebpf_loader, err).result]
    /\ UNCHANGED otherThanLoader

\* a call of EbpfLoader::detach
loaderDetach ==
    /\ ebpf_loader' = detach(ebpf_loader)
    /\ loader_call' = [op |-> "detach", attached |-> ebpf_loader.attached, result |-> "ok"]
    /\ UNCHANGED otherThanLoader

\* the loader is the source of a move: skel_ and attached_ are exchanged away
loaderMoveFrom ==
    /\ ebpf_loader.skel
    /\ ebpf_loader' = [skel |-> FALSE, attached |-> FALSE]
    /\ loader_call' = [op |-> "move", attached |-> ebpf_loader.attached, result |-> "ok"]
    /\ UNCHANGED otherThanLoader

\* starting and stopping, on the tracker and on the loader
NextAttach ==
    \/ \E err \in AttachErrnos : trackerStart(err)
    \/ trackerStop
    \/ \E pid \in 0..MaxPid, update_ok \in BOOLEAN : setTargetPid(pid, update_ok)
    \/ \E err \in AttachErrnos : loaderAttach(err)
    \/ loaderDetach
    \/ loaderMoveFrom

(***************************************************************************)
(* The perf-event handles: PmuGroup (src/collection/pmu_group.cpp) and     *)
(* PmuCounter (src/collection/pmu_counter.cpp) as owners of the file       *)
(* descriptors perf_event_open returns.  Two objects of each class, so     *)
(* that one can be moved into the other; the kernel numbers the            *)
(* descriptors it hands out 1, 2, ... and counts the close() calls on each.*)
(***************************************************************************)
otherThanHandles == <<storeVars, samplerVars, trackerVars, loaderVars, topologyVars, readVars, ringVars, lifeVars, moveVars>>

\* PmuGroup::kCounterCount: cycles, instructions, llc_loads, llc_load_misses, branch_misses
kCounterCount == 5

\* PmuGroup::kInvalidFd and PmuCounter::kInvalidFd
kInvalidFd == -1

GroupObjects == {"g1", "g2"}
CounterObjects == {"c1", "c2"}

\* errno values perf_event_open fails with, one from three classes of the mapping
OpenErrnos == {"EACCES", "EMFILE", "EIO"}

\* errno after the close() calls of the cleanup: left alone, or overwritten
CloseErrnos == {"none", "EINTR"}

\* system calls of read/reset/enable/disable on a descriptor succeed or fail
HandleOps == {"read", "reset", "enable", "disable"}

\* errnoToPmuError, the same function in pmu_group.cpp and pmu_counter.cpp
errnoToPmuError(err) ==
    CASE err \in {"EACCES", "EPERM"} -> "PermissionDenied"
      [] err \in {"ENOENT", "ENODEV", "EOPNOTSUPP"} -> "EventNotSupported"
      [] err \in {"ESRCH", "EINVAL"} -> "InvalidTarget"
      [] err \in {"EMFILE", "ENFILE"} -> "TooManyEvents"
      [] OTHER -> "OpenFailed"

\* an array of descriptors after fill(kInvalidFd)
InvalidFds == [i \in 1..kCounterCount |-> kInvalidFd]

\* PmuGroup::isValid on an fds_ array
isValid(fds) == \A i \in 1..kCounterCount : fds[i] # kInvalidFd

\* close() on every descriptor of fds that is not the sentinel
closeEach(kernel, fds) ==
    [n \in 1..Len(kernel) |->
        kernel[n] + Cardinality({i \in 1..kCounterCount : fds[i] = n})]

\* PmuGroup::closeAll: closes the valid descriptors and stores the sentinel in their place
PmuGroup_closeAll(kernel, fds) == [kernel |-> closeEach(kernel, fds), fds_ |-> InvalidFds]

cleanup_leaks(kernel, fds) == kernel
\* the cleanup lambda of PmuGroup::create
cleanup(kernel, fds) == closeEach(kernel, fds)

movedFrom_keepsFds(fds) == fds
\* what a move leaves in the source's fds_: other.fds_.fill(kInvalidFd)
movedFrom(fds) == InvalidFds

\* the kernel after perf_event_open succeeded n more times
opened(kernel, n) == kernel \o [i \in 1..n |-> 0]

\* an object of either class outside its lifetime
NoGroup == [alive |-> FALSE, fds_ |-> InvalidFds]
NoCounter == [alive |-> FALSE, fd_ |-> kInvalidFd]

\* the record of a call: fd is the first descriptor the call hands to the kernel
\* (to close, read or ioctl), kInvalidFd when it hands none
HandleCall(object, op, slot, from, result, fail_at, err, fd) ==
    [object |-> object, op |-> op, slot |-> slot, from |-> from, result |-> result,
     fail_at |-> fail_at, errno |-> err, fd |-> fd]

InitHandles ==
    /\ pmu_groups = [g \in GroupObjects |-> NoGroup]
    /\ pmu_counters = [c \in CounterObjects |-> NoCounter]
    /\ closes = <<>>
    /\ handle_call = HandleCall("none", "none", "none", "none", "ok", 0, "none", kInvalidFd)

\* PmuGroup::create into the object g.  fail_at is the counter whose perf_event_open
\* fails (0: none) with open_errno; close_errno is errno after the cleanup's closes.
PmuGroup_create(g, fail_at, open_errno, close_errno) ==
    LET n == IF fail_at = 0 THEN kCounterCount ELSE fail_at - 1
        fds == [i \in 1..kCounterCount |-> IF i <= n THEN Len(closes) + i ELSE kInvalidFd]
        err == errnoToPmuError(open_errno)
    IN  /\ ~pmu_groups[g].alive
        /\ Len(closes) + n <= MaxFds
        /\ IF fail_at = 0
           THEN /\ pmu_groups' = [pmu_groups EXCEPT ![g] = [alive |-> TRUE, fds_ |-> fds]]
                /\ closes' = opened(closes, n)
                /\ handle_call' = HandleCall("PmuGroup", "create", g, "none", "ok",
                                             0, "none", kInvalidFd)
           ELSE /\ pmu_groups' = pmu_groups
                /\ closes' = IF fail_at = 1 THEN closes
                             ELSE cleanup(opened(closes, n), fds)
                /\ handle_call' = HandleCall("PmuGroup", "create", g, "none", err,
                                             fail_at, open_errno, kInvalidFd)
        /\ UNCHANGED pmu_counters
        /\ UNCHANGED otherThanHandles

\* PmuGroup(PmuGroup&& other): dst is constructed from src
PmuGroup_moveConstruct(dst, src) ==
    /\ dst # src
    /\ ~pmu_groups[dst].alive
    /\ pmu_groups[src].alive
    /\ pmu_groups' = [pmu_groups EXCEPT
                        ![dst] = [alive |-> TRUE, fds_ |-> pmu_groups[src].fds_],
                        ![src] = [alive |-> TRUE, fds_ |-> movedFrom(pmu_groups[src].fds_)]]
    /\ handle_call' = HandleCall("PmuGroup", "move-construct", dst, src, "ok",
                                 0, "none", kInvalidFd)
    /\ UNCHANGED <<pmu_counters, closes>>
    /\ UNCHANGED otherThanHandles

\* PmuGroup::operator=(PmuGroup&& other): dst = std::move(src), src = dst included
PmuGroup_moveAssign(dst, src) ==
    /\ pmu_groups[dst].alive
    /\ pmu_groups[src].alive
    /\ IF dst # src
       THEN /\ closes' = PmuGroup_closeAll(closes, pmu_groups[dst].fds_).kernel
            /\ pmu_groups' = [pmu_groups EXCEPT
                                ![dst] = [alive |-> TRUE, fds_ |-> pmu_groups[src].fds_],
                                ![src] = [alive |-> TRUE,
                                          fds_ |-> movedFrom(pmu_groups[src].fds_)]]
       ELSE UNCHANGED <<closes, pmu_groups>>
    /\ handle_call' = HandleCall("PmuGroup", "move-assign", dst, src, "ok", 0, "none",
                                 IF dst # src THEN pmu_groups[dst].fds_[1] ELSE kInvalidFd)
    /\ UNCHANGED pmu_counters
    /\ UNCHANGED otherThanHandles

\* PmuGroup::~PmuGroup
PmuGroup_destroy(g) ==
    /\ pmu_groups[g].alive
    /\ closes' = PmuGroup_closeAll(closes, pmu_groups[g].fds_).kernel
    /\ pmu_groups' = [pmu_groups EXCEPT ![g] = NoGroup]
    /\ handle_call' = HandleCall("PmuGroup", "destroy", g, "none", "ok",
                                 0, "none", pmu_groups[g].fds_[1])
    /\ UNCHANGED pmu_counters
    /\ UNCHANGED otherThanHandles

\* mutation: the operations hand fds_[kCycles] to the kernel without looking at it
PmuGroup_operation_unchecked(g, op, syscall_ok) ==
    /\ pmu_groups[g].alive
    /\ handle_call' =
         HandleCall("PmuGroup", op, g, "none",
                    IF syscall_ok /\ isValid(pmu_groups[g].fds_) THEN "ok"
                    ELSE IF op = "read" THEN "ReadFailed" ELSE "InvalidState",
                    0, "none", pmu_groups[g].fds_[1])
    /\ UNCHANGED <<pmu_groups, pmu_counters, closes>>
    /\ UNCHANGED otherThanHandles

\* PmuGroup::read, reset, enable and disable: the system call goes to the leader's
\* descriptor and succeeds or fails
PmuGroup_operation(g, op, syscall_ok) ==
    /\ pmu_groups[g].alive
    /\ handle_call' =
         IF ~isValid(pmu_groups[g].fds_)
         THEN HandleCall("PmuGroup", op, g, "none", "InvalidState", 0, "none", kInvalidFd)
         ELSE HandleCall("PmuGroup", op, g, "none",
                         IF syscall_ok THEN "ok"
                         ELSE IF op = "read" THEN "ReadFailed" ELSE "InvalidState",
                         0, "none", pmu_groups[g].fds_[1])
    /\ UNCHANGED <<pmu_groups, pmu_counters, closes>>
    /\ UNCHANGED otherThanHandles

\* PmuCounter::create into the object c; open_errno is "none" when perf_event_open succeeds
PmuCounter_create(c, open_errno) ==
    /\ ~pmu_counters[c].alive
    /\ IF open_errno = "none"
       THEN /\ Len(closes) < MaxFds
            /\ pmu_counters' = [pmu_counters EXCEPT
                                  ![c] = [alive |-> TRUE, fd_ |-> Len(closes) + 1]]
            /\ closes' = opened(closes, 1)
            /\ handle_call' = HandleCall("PmuCounter", "create", c, "none", "ok",
                                         0, "none", kInvalidFd)
       ELSE /\ UNCHANGED <<pmu_counters, closes>>
            /\ handle_call' = HandleCall("PmuCounter", "create", c, "none",
                                         errnoToPmuError(open_errno), 1, open_errno,
                                         kInvalidFd)
    /\ UNCHANGED pmu_groups
    /\ UNCHANGED otherThanHandles

\* ~PmuCounter, and the close of the destination in the move assignment
closeCounter(kernel, fd) ==
    IF fd # kInvalidFd THEN [kernel EXCEPT ![fd] = @ + 1] ELSE kernel

\* PmuCounter(PmuCounter&& other)
PmuCounter_moveConstruct(dst, src) ==
    /\ dst # src
    /\ ~pmu_counters[dst].alive
    /\ pmu_counters[src].alive
    /\ pmu_counters' = [pmu_counters EXCEPT
                          ![dst] = [alive |-> TRUE, fd_ |-> pmu_counters[src].fd_],
                          ![src] = [alive |-> TRUE, fd_ |-> kInvalidFd]]
    /\ handle_call' = HandleCall("PmuCounter", "move-construct", dst, src, "ok",
                                 0, "none", kInvalidFd)
    /\ UNCHANGED <<pmu_groups, closes>>
    /\ UNCHANGED otherThanHandles

\* PmuCounter::operator=(PmuCounter&& other)
PmuCounter_moveAssign(dst, src) ==
    /\ pmu_counters[dst].alive
    /\ pmu_counters[src].alive
    /\ IF dst # src
       THEN /\ closes' = closeCounter(closes, pmu_counters[dst].fd_)
            /\ pmu_counters' = [pmu_counters EXCEPT
                                  ![dst] = [alive |-> TRUE, fd_ |-> pmu_counters[src].fd_],
                                  ![src] = [alive |-> TRUE, fd_ |-> kInvalidFd]]
       ELSE UNCHANGED <<closes, pmu_counters>>
    /\ handle_call' = HandleCall("PmuCounter", "move-assign", dst, src, "ok", 0, "none",
                                 IF dst # src THEN pmu_counters[dst].fd_ ELSE kInvalidFd)
    /\ UNCHANGED pmu_groups
    /\ UNCHANGED otherThanHandles

\* PmuCounter::~PmuCounter
PmuCounter_destroy(c) ==
    /\ pmu_counters[c].alive
    /\ closes' = closeCounter(closes, pmu_counters[c].fd_)
    /\ pmu_counters' = [pmu_counters EXCEPT ![c] = NoCounter]
    /\ handle_call' = HandleCall("PmuCounter", "destroy", c, "none", "ok",
                                 0, "none", pmu_counters[c].fd_)
    /\ UNCHANGED pmu_groups
    /\ UNCHANGED otherThanHandles

\* PmuCounter::read, reset, enable and disable
PmuCounter_operation(c, op, syscall_ok) ==
    /\ pmu_counters[c].alive
    /\ handle_call' =
         IF pmu_counters[c].fd_ = kInvalidFd
         THEN HandleCall("PmuCounter", op, c, "none", "InvalidState", 0, "none", kInvalidFd)
         ELSE HandleCall("PmuCounter", op, c, "none",
                         IF syscall_ok THEN "ok"
                         ELSE IF op = "read" THEN "ReadFailed" ELSE "InvalidState",
                         0, "none", pmu_counters[c].fd_)
    /\ UNCHANGED <<pmu_groups, pmu_counters, closes>>
    /\ UNCHANGED otherThanHandles

\* creation, moves and destruction of the handles, in any order
NextHandles ==
    \/ \E g \in GroupObjects, fail_at \in 0..kCounterCount,
          open_errno \in OpenErrnos, close_errno \in CloseErrnos :
            PmuGroup_create(g, fail_at, open_errno, close_errno)
    \/ \E dst \in GroupObjects, src \in GroupObjects : PmuGroup_moveConstruct(dst, src)
    \/ \E dst \in GroupObjects, src \in GroupObjects : PmuGroup_moveAssign(dst, src)
    \/ \E g \in GroupObjects : PmuGroup_destroy(g)
    \/ \E c \in CounterObjects, open_errno \in {"none"} \cup OpenErrnos :
            PmuCounter_create(c, open_errno)
    \/ \E dst \in CounterObjects, src \in CounterObjects : PmuCounter_moveConstruct(dst, src)
    \/ \E dst \in CounterObjects, src \in CounterObjects : PmuCounter_moveAssign(dst, src)
    \/ \E c \in CounterObjects : PmuCounter_destroy(c)

\* MigrationTracker(MigrationTracker&& other), seen from other: the loader is moved
\* away, ring_buf_ and running_ are exchanged for nullptr and false, event_count_
\* is only read; the std::function left behind is empty or not
trackerMoveFrom(callback_left) ==
    /\ loader_' = [skel |-> FALSE, attached |-> FALSE]
    /\ ring_buf_' = [valid |-> FALSE, ctx |-> "nullptr"]
    /\ tracker_callback_' = callback_left
    /\ tracker_running_' = FALSE
    /\ tracker_call' = [op |-> "move", result |-> "ok"]
    /\ UNCHANGED <<event_count_, events, migration_config, ktime, delivered,
                   consumed_sizes, handler_log>>
    /\ UNCHANGED otherThanTracker

\* handles and a tracker that are used before and after they are moved from
NextMovedFrom ==
    \/ \E g \in GroupObjects : PmuGroup_create(g, 0, "EIO", "none")
    \/ \E dst \in GroupObjects, src \in GroupObjects : PmuGroup_moveConstruct(dst, src)
    \/ \E g \in GroupObjects, op \in HandleOps, syscall_ok \in BOOLEAN :
            PmuGroup_operation(g, op, syscall_ok)
    \/ \E c \in CounterObjects : PmuCounter_create(c, "none")
    \/ \E dst \in CounterObjects, src \in CounterObjects : PmuCounter_moveConstruct(dst, src)
    \/ \E c \in CounterObjects, op \in HandleOps, syscall_ok \in BOOLEAN :
            PmuCounter_operation(c, op, syscall_ok)
    \/ \E err \in AttachErrnos : trackerStart(err)
    \/ \E pid \in 0..MaxPid, update_ok \in BOOLEAN : setTargetPid(pid, update_ok)
    \/ poll
    \/ \E callback_left \in BOOLEAN : trackerMoveFrom(callback_left)

(***************************************************************************)
(* The events ring buffer between handlers on several CPUs and poll().     *)
(* handle_sched_migrate_task runs on the CPU that performs the migration;  *)
(* on one CPU the handler runs to its end before it runs again, but the    *)
(* handlers of different CPUs overlap: between bpf_ringbuf_reserve and     *)
(* bpf_ringbuf_submit of one, another may reserve and submit.  Records are *)
(* numbered in the order of reservation, which is their order in the ring. *)
(***************************************************************************)
otherThanRing ==
    <<storeVars, samplerVars, loaderVars, handleVars, topologyVars, readVars, lifeVars, moveVars>>

InitRing ==
    /\ ring_slots = <<>>
    /\ handler_pc = [cpu \in KernelCpus |-> 0]
    /\ reserved = <<>>
    /\ submitted = <<>>
    /\ handed = <<>>

\* the tracker's own state, which the handlers and the ring read and poll() reports on
ringFrame ==
    <<loader_, ring_buf_, tracker_callback_, event_count_, tracker_running_, events,
      migration_config, ktime, delivered, consumed_sizes, handler_log>>

\* handle_sched_migrate_task on a CPU up to bpf_ringbuf_reserve (no PID filter set):
\* the record is appended to the ring with its busy bit set, or dropped when full
ringReserve(cpu) ==
    /\ loader_.attached
    /\ handler_pc[cpu] = 0
    /\ Len(reserved) < MaxRecords
    /\ IF Len(ring_slots) >= MaxRing
       THEN UNCHANGED <<ring_slots, handler_pc, reserved>>
       ELSE LET record == Len(reserved) + 1
            IN  /\ ring_slots' = Append(ring_slots, [record |-> record, busy |-> TRUE])
                /\ handler_pc' = [handler_pc EXCEPT ![cpu] = record]
                /\ reserved' = Append(reserved, cpu)
    /\ UNCHANGED <<submitted, handed>>
    /\ UNCHANGED <<ringFrame, tracker_call>>
    /\ UNCHANGED otherThanRing

\* the rest of the handler: the fields are filled and bpf_ringbuf_submit clears the busy bit
ringSubmit(cpu) ==
    /\ handler_pc[cpu] # 0
    /\ ring_slots' = [i \in 1..Len(ring_slots) |->
                         IF ring_slots[i].record = handler_pc[cpu]
                         THEN [ring_slots[i] EXCEPT !.busy = FALSE] ELSE ring_slots[i]]
    /\ submitted' = Append(submitted, handler_pc[cpu])
    /\ handler_pc' = [handler_pc EXCEPT ![cpu] = 0]
    /\ UNCHANGED <<reserved, handed>>
    /\ UNCHANGED <<ringFrame, tracker_call>>
    /\ UNCHANGED otherThanRing

\* the records at the front of the ring that are committed: the consumer stops at
\* the first record whose busy bit is set
RECURSIVE readyPrefix(_)
readyPrefix(slots) ==
    IF slots = <<>> THEN <<>>
    ELSE IF Head(slots).busy THEN <<>>
    ELSE <<Head(slots).record>> \o readyPrefix(Tail(slots))

\* the ring once the consumer has taken the records taken
consume(slots, taken) ==
    SelectSeq(slots, LAMBDA slot : \A i \in 1..Len(taken) : taken[i] # slot.record)

\* mutation: the consumer steps over busy records and takes every committed one
ringPoll_skipsBusy ==
    /\ IF ~ring_buf_.valid
       THEN /\ tracker_call' = [op |-> "poll", result |-> -1]
            /\ UNCHANGED <<ring_slots, handed>>
       ELSE LET committed == SelectSeq(ring_slots, LAMBDA slot : ~slot.busy)
                taken == [i \in 1..Len(committed) |-> committed[i].record]
            IN  /\ handed' = handed \o taken
                /\ ring_slots' = consume(ring_slots, taken)
                /\ tracker_call' = [op |-> "poll", result |-> Len(taken)]
    /\ UNCHANGED <<handler_pc, reserved, submitted>>
    /\ UNCHANGED ringFrame
    /\ UNCHANGED otherThanRing

\* MigrationTracker::poll over this ring: ring_buffer__poll runs ringBufferCallback
\* on the ready records, oldest first, and returns their number
ringPoll ==
    /\ IF ~ring_buf_.valid
       THEN /\ tracker_call' = [op |-> "poll", result |-> -1]
            /\ UNCHANGED <<ring_slots, handed>>
       ELSE LET taken == readyPrefix(ring_slots)
            IN  /\ handed' = handed \o taken
                /\ ring_slots' = consume(ring_slots, taken)
                /\ tracker_call' = [op |-> "poll", result |-> Len(taken)]
    /\ UNCHANGED <<handler_pc, reserved, submitted>>
    /\ UNCHANGED ringFrame
    /\ UNCHANGED otherThanRing

\* the tracker is started and stopped while handlers run and the ring is polled
NextRing ==
    \/ \E err \in AttachErrnos : trackerStart(err)
    \/ trackerStop
    \/ \E cpu \in KernelCpus : ringReserve(cpu)
    \/ \E cpu \in KernelCpus : ringSubmit(cpu)
    \/ ringPoll

(***************************************************************************)
(* The life of MigrationTracker objects (migration_tracker.cpp) and of the *)
(* EbpfLoader each owns (ebpf_loader.cpp): create, start, stop, move       *)
(* construction, move assignment, destruction.  A skeleton and its ring    *)
(* buffer consumer are numbered by the create call that made them; 0 is    *)
(* nullptr.                                                                *)
(***************************************************************************)
otherThanLife ==
    <<storeVars, samplerVars, trackerVars, loaderVars, handleVars, topologyVars, readVars,
      ringVars, moveVars>>

TrackerObjects == {"t1", "t2"}

\* a loader whose skel_ is nullptr
NullLoader == [skel |-> FALSE, attached |-> FALSE, id |-> 0]

\* storage that holds no tracker object
NoTracker == [alive |-> FALSE, loader_ |-> NullLoader, ring_buf_ |-> 0, running_ |-> FALSE]

LifeCall(object, op, from, err, was_running, result) ==
    [object |-> object, op |-> op, from |-> from, errno |-> err,
     was_running |-> was_running, result |-> result]

InitLife ==
    /\ trackers = [t \in TrackerObjects |-> NoTracker]
    /\ bpf_objects = <<>>
    /\ released = <<>>
    /\ life_call = LifeCall("none", "none", "none", "none", FALSE, "none")

Release(step, id) == [step |-> step, id |-> id]

\* MigrationTracker::stop on the members of t: the steps taken, the members afterwards
stopped(t) ==
    IF ~t.running_ THEN [steps |-> <<>>, tracker |-> t]
    ELSE [steps   |-> IF t.loader_.skel /\ t.loader_.attached
                      THEN <<Release("detach", t.loader_.id)>> ELSE <<>>,
          tracker |-> [t EXCEPT !.loader_ = detach(t.loader_), !.running_ = FALSE]]

\* ~EbpfLoader, and the clean-up of EbpfLoader::operator=: detach if attached, destroy
releaseLoader(l) ==
    IF ~l.skel THEN <<>>
    ELSE (IF l.attached THEN <<Release("detach", l.id)>> ELSE <<>>)
         \o <<Release("destroy", l.id)>>

\* mutation: the program handle is destroyed before the ring buffer consumer is freed
releaseTracker_loaderFirst(t) ==
    stopped(t).steps
    \o releaseLoader(stopped(t).tracker.loader_)
    \o (IF t.ring_buf_ # 0 THEN <<Release("ring_buffer__free", t.ring_buf_)>> ELSE <<>>)

\* what ~MigrationTracker, and operator= for the old members, release: stop() if
\* running, ring_buffer__free if ring_buf_ is set, then the loader's own release
releaseTracker(t) ==
    stopped(t).steps
    \o (IF t.ring_buf_ # 0 THEN <<Release("ring_buffer__free", t.ring_buf_)>> ELSE <<>>)
    \o releaseLoader(stopped(t).tracker.loader_)

\* the kernel's counts of ring_buffer__free and destroy calls after the release steps
RECURSIVE applyReleases(_, _)
applyReleases(kernel, steps) ==
    IF steps = <<>> THEN kernel
    ELSE LET step == Head(steps)
             next == IF step.step = "ring_buffer__free"
                     THEN [kernel EXCEPT ![step.id].ring_frees = @ + 1]
                     ELSE IF step.step = "destroy"
                     THEN [kernel EXCEPT ![step.id].destroys = @ + 1]
                     ELSE kernel
         IN  applyReleases(next, Tail(steps))

\* MigrationTracker::create into the object t, every setup step succeeding
MigrationTracker_create(t) ==
    /\ ~trackers[t].alive
    /\ Len(bpf_objects) < MaxTrackers
    /\ LET id == Len(bpf_objects) + 1
       IN  /\ trackers' = [trackers EXCEPT ![t] =
                  [alive |-> TRUE, loader_ |-> [skel |-> TRUE, attached |-> FALSE, id |-> id],
                   ring_buf_ |-> id, running_ |-> FALSE]]
           /\ bpf_objects' = Append(bpf_objects, [ring_frees |-> 0, destroys |-> 0])
    /\ life_call' = LifeCall(t, "create", "none", "none", FALSE, "ok")
    /\ UNCHANGED released
    /\ UNCHANGED otherThanLife

\* MigrationTracker::start on the object t
MigrationTracker_start(t, err) ==
    /\ trackers[t].alive
    /\ IF trackers[t].running_
       THEN /\ life_call' = LifeCall(t, "start", "none", err, TRUE, "ok")
            /\ UNCHANGED trackers
       ELSE LET result == attach(trackers[t].loader_, err)
            IN  /\ trackers' = [trackers EXCEPT ![t].loader_ = result.loader,
                                                ![t].running_ = (result.result = "ok")]
                /\ life_call' = LifeCall(t, "start", "none", err, FALSE, result.result)
    /\ UNCHANGED <<bpf_objects, released>>
    /\ UNCHANGED otherThanLife

\* MigrationTracker::stop on the object t
MigrationTracker_stop(t) ==
    /\ trackers[t].alive
    /\ trackers' = [trackers EXCEPT ![t] = stopped(trackers[t]).tracker]
    /\ life_call' = LifeCall(t, "stop", "none", "none", trackers[t].running_, "ok")
    /\ UNCHANGED <<bpf_objects, released>>
    /\ UNCHANGED otherThanLife

\* mutation: the source of a move keeps its running_ flag
movedFromTracker_keepsRunning(t) ==
    [t EXCEPT !.loader_ = NullLoader, !.ring_buf_ = 0]

\* what the members of a moved-from tracker are
movedFromTracker(t) ==
    [t EXCEPT !.loader_ = NullLoader, !.ring_buf_ = 0, !.running_ = FALSE]

\* MigrationTracker(MigrationTracker&& other): dst is constructed from src
MigrationTracker_moveConstruct(dst, src) ==
    /\ ~trackers[dst].alive
    /\ trackers[src].alive
    /\ trackers' = [trackers EXCEPT ![dst] = trackers[src],
                                    ![src] = movedFromTracker(trackers[src])]
    /\ life_call' = LifeCall(dst, "moveConstruct", src, "none", trackers[src].running_, "ok")
    /\ UNCHANGED <<bpf_objects, released>>
    /\ UNCHANGED otherThanLife

\* MigrationTracker::operator=(MigrationTracker&& other): dst = std::move(src)
MigrationTracker_moveAssign(dst, src) ==
    /\ trackers[dst].alive
    /\ trackers[src].alive
    /\ IF dst = src
       THEN UNCHANGED <<trackers, bpf_objects, released>>
       ELSE /\ released' = releaseTracker(trackers[dst])
            /\ bpf_objects' = applyReleases(bpf_objects, releaseTracker(trackers[dst]))
            /\ trackers' = [trackers EXCEPT ![dst] = trackers[src],
                                            ![src] = movedFromTracker(trackers[src])]
    /\ life_call' = LifeCall(dst, "moveAssign", src, "none", trackers[dst].running_, "ok")
    /\ UNCHANGED otherThanLife

\* ~MigrationTracker on the object t, and ~EbpfLoader on its loader_
MigrationTracker_destroy(t) ==
    /\ trackers[t].alive
    /\ released' = releaseTracker(trackers[t])
    /\ bpf_objects' = applyReleases(bpf_objects, releaseTracker(trackers[t]))
    /\ trackers' = [trackers EXCEPT ![t] = NoTracker]
    /\ life_call' = LifeCall(t, "destroy", "none", "none", trackers[t].running_, "ok")
    /\ UNCHANGED otherThanLife

NextTrackerLife ==
    \/ \E t \in TrackerObjects : MigrationTracker_create(t)
    \/ \E t \in TrackerObjects, err \in AttachErrnos : MigrationTracker_start(t, err)
    \/ \E t \in TrackerObjects : MigrationTracker_stop(t)
    \/ \E dst \in TrackerObjects, src \in TrackerObjects :
            MigrationTracker_moveConstruct(dst, src)
    \/ \E dst \in TrackerObjects, src \in TrackerObjects :
            MigrationTracker_moveAssign(dst, src)
    \/ \E t \in TrackerObjects : MigrationTracker_destroy(t)

(***************************************************************************)
(* PmuSampler objects that are moved while their worker runs               *)
(* (pmu_sampler.cpp).  start() launches the worker with a lambda that      *)
(* captures this; the std::jthread that owns the worker, and its stop      *)
(* state, travel with sampling_thread_ when the sampler is moved.  One     *)
(* controller thread issues the calls; a worker iteration is one step.     *)
(***************************************************************************)
otherThanMove ==
    <<storeVars, samplerVars, trackerVars, loaderVars, handleVars, topologyVars, readVars,
      ringVars, lifeVars>>

SamplerObjects == {"s1", "s2"}

\* storage that holds no sampler object
NoSampler ==
    [alive |-> FALSE, group_ |-> FALSE, callback_ |-> FALSE, sample_count_ |-> 0,
     running_ |-> FALSE, sampling_thread_ |-> 0]

MoveCall(object, op, from, ioctl_ok, result) ==
    [object |-> object, op |-> op, from |-> from, ioctl_ok |-> ioctl_ok, result |-> result]

NoAccess == [worker |-> 0, object |-> "none", owner |-> "none", state |-> "none"]

Idle == [op |-> "none", object |-> "none", from |-> "none"]

InitMove ==
    /\ samplers = [o \in SamplerObjects |-> NoSampler]
    /\ workers = <<>>
    /\ move_pc = Idle
    /\ move_call = MoveCall("none", "none", "none", TRUE, "none")
    /\ last_access = NoAccess
    /\ crashed = FALSE

\* the object whose sampling_thread_ owns the worker w ("none": no object)
OwnerOf(w) ==
    IF \E o \in SamplerObjects : samplers[o].alive /\ samplers[o].sampling_thread_ = w
    THEN CHOOSE o \in SamplerObjects : samplers[o].alive /\ samplers[o].sampling_thread_ = w
    ELSE "none"

\* PmuSampler::create into the object o: a valid group, a callback, not running
sampler_create(o) ==
    /\ ~crashed /\ move_pc = Idle
    /\ ~samplers[o].alive
    /\ samplers' = [samplers EXCEPT ![o] =
           [alive |-> TRUE, group_ |-> TRUE, callback_ |-> TRUE, sample_count_ |-> 0,
            running_ |-> FALSE, sampling_thread_ |-> 0]]
    /\ move_call' = MoveCall(o, "create", "none", TRUE, "ok")
    /\ UNCHANGED <<workers, move_pc, last_access, crashed>>
    /\ UNCHANGED otherThanMove

\* PmuSampler::start on the object o; the worker's lambda captures this = o
sampler_start(o, ioctl_ok) ==
    /\ ~crashed /\ move_pc = Idle
    /\ samplers[o].alive
    /\ IF samplers[o].running_ \/ ~samplers[o].group_ \/ ~ioctl_ok
       THEN /\ move_call' = MoveCall(o, "start", "none", ioctl_ok, "InvalidState")
            /\ UNCHANGED <<samplers, workers>>
       ELSE /\ Len(workers) < MaxStarts
            /\ workers' = Append(workers, [this |-> o, pc |-> "loop", stop_requested |-> FALSE])
            /\ samplers' = [samplers EXCEPT ![o].sample_count_ = 0,
                                            ![o].running_ = TRUE,
                                            ![o].sampling_thread_ = Len(workers) + 1]
            /\ move_call' = MoveCall(o, "start", "none", ioctl_ok, "ok")
    /\ UNCHANGED <<move_pc, last_access, crashed>>
    /\ UNCHANGED otherThanMove

\* the members of a sampler after stop() has joined the worker and disabled the group
afterStop(sampler) == [sampler EXCEPT !.sampling_thread_ = 0, !.running_ = FALSE]

\* the members of a sampler that was the source of a move; a moved-from
\* std::function is valid but unspecified
movedFromSampler(sampler, callback_left) ==
    [sampler EXCEPT !.group_ = FALSE, !.callback_ = callback_left, !.sampling_thread_ = 0,
                    !.sample_count_ = 0, !.running_ = FALSE]

\* the part of operator= after its stop(): dst takes the members of src
takeOver(all, dst, src, callback_left) ==
    [all EXCEPT ![dst] = [all[src] EXCEPT !.alive = TRUE],
                ![src] = movedFromSampler(all[src], callback_left)]

\* PmuSampler::stop, ~PmuSampler and operator= on the object o up to the join in
\* stop(): when o is not running the call completes at once, otherwise the worker
\* is asked to stop and the controller waits for it
sampler_call(op, o, src, callback_left) ==
    /\ ~crashed /\ move_pc = Idle
    /\ samplers[o].alive
    /\ op = "moveAssign" => (samplers[src].alive /\ src # o)
    /\ op # "moveAssign" => src = o
    /\ IF samplers[o].running_ /\ samplers[o].sampling_thread_ # 0
       THEN /\ workers' = [workers EXCEPT ![samplers[o].sampling_thread_].stop_requested = TRUE]
            /\ move_pc' = [op |-> op, object |-> o, from |-> src]
            /\ UNCHANGED <<samplers, move_call>>
       ELSE /\ samplers' =
                 CASE op = "stop" -> [samplers EXCEPT ![o] = afterStop(samplers[o])]
                   [] op = "destroy" -> [samplers EXCEPT ![o] = NoSampler]
                   [] op = "moveAssign" -> takeOver(samplers, o, src, callback_left)
            /\ move_call' = MoveCall(o, op, src, TRUE, IF op = "stop" THEN "noop" ELSE "ok")
            /\ UNCHANGED <<workers, move_pc>>
    /\ UNCHANGED <<last_access, crashed>>
    /\ UNCHANGED otherThanMove

\* join() returns in the stop() a call waits in: the group is disabled, running_
\* cleared, and the destructor or operator= goes on
sampler_joined(callback_left) ==
    /\ ~crashed /\ move_pc # Idle
    /\ LET o == move_pc.object
           w == samplers[o].sampling_thread_
           stopped_all == [samplers EXCEPT ![o] = afterStop(samplers[o])]
       IN  /\ workers[w].pc = "exited"
           /\ workers' = [workers EXCEPT ![w].pc = "joined"]
           /\ samplers' =
                CASE move_pc.op = "stop" -> stopped_all
                  [] move_pc.op = "destroy" -> [samplers EXCEPT ![o] = NoSampler]
                  [] move_pc.op = "moveAssign" ->
                        takeOver(stopped_all, o, move_pc.from, callback_left)
           /\ move_call' = MoveCall(o, move_pc.op, move_pc.from, TRUE,
                                    IF move_pc.op = "stop" THEN "stopped" ELSE "ok")
    /\ move_pc' = Idle
    /\ UNCHANGED <<last_access, crashed>>
    /\ UNCHANGED otherThanMove

\* PmuSampler(PmuSampler&& other): dst is constructed from src, running or not
sampler_moveConstruct(dst, src, callback_left) ==
    /\ ~crashed /\ move_pc = Idle
    /\ ~samplers[dst].alive
    /\ samplers[src].alive
    /\ samplers' = takeOver(samplers, dst, src, callback_left)
    /\ move_call' = MoveCall(dst, "moveConstruct", src, TRUE, "ok")
    /\ UNCHANGED <<workers, move_pc, last_access, crashed>>
    /\ UNCHANGED otherThanMove

\* what this is to a worker at the time of an iteration
StateOf(w) ==
    LET o == workers[w].this
    IN  IF ~samplers[o].alive THEN "destroyed"
        ELSE IF samplers[o].sampling_thread_ = w THEN "owner"
        ELSE IF ~samplers[o].group_ THEN "moved-from"
        ELSE "other"

\* one iteration of samplingLoop by the worker w on the object its lambda
\* captured: the loop condition, collectSample (group_.read(), callback_),
\* sample_count_.fetch_add.  On an object whose lifetime has ended the access is
\* undefined: the process goes on or is terminated.  An empty callback_ throws
\* std::bad_function_call out of the thread, which terminates the process.
workerIteration(w, read_ok, survives) ==
    /\ ~crashed
    /\ w <= Len(workers)
    /\ workers[w].pc = "loop"
    /\ IF workers[w].stop_requested
       THEN /\ workers' = [workers EXCEPT ![w].pc = "exited"]
            /\ UNCHANGED <<samplers, last_access, crashed>>
       ELSE LET o == workers[w].this
            IN  /\ last_access' = [worker |-> w, object |-> o, owner |-> OwnerOf(w),
                                   state |-> StateOf(w)]
                /\ IF ~samplers[o].alive
                   THEN /\ crashed' = ~survives
                        /\ UNCHANGED samplers
                   ELSE IF samplers[o].group_ /\ read_ok
                   THEN IF samplers[o].callback_
                        THEN /\ samplers[o].sample_count_ < MaxSamples
                             /\ samplers' = [samplers EXCEPT ![o].sample_count_ = @ + 1]
                             /\ UNCHANGED crashed
                        ELSE /\ crashed' = TRUE
                             /\ UNCHANGED samplers
                   ELSE UNCHANGED <<samplers, crashed>>
                /\ UNCHANGED workers
    /\ UNCHANGED <<move_pc, move_call>>
    /\ UNCHANGED otherThanMove

NextSamplerMove ==
    \/ \E o \in SamplerObjects : sampler_create(o)
    \/ \E o \in SamplerObjects, ioctl_ok \in BOOLEAN : sampler_start(o, ioctl_ok)
    \/ \E o \in SamplerObjects : sampler_call("stop", o, o, FALSE)
    \/ \E o \in SamplerObjects : sampler_call("destroy", o, o, FALSE)
    \/ \E dst \in SamplerObjects, src \in SamplerObjects, callback_left \in BOOLEAN :
            sampler_call("moveAssign", dst, src, callback_left)
    \/ \E callback_left \in BOOLEAN : sampler_joined(callback_left)
    \/ \E dst \in SamplerObjects, src \in SamplerObjects, callback_left \in BOOLEAN :
            sampler_moveConstruct(dst, src, callback_left)
    \/ \E w \in 1..MaxStarts, read_ok \in BOOLEAN, survives \in BOOLEAN :
            workerIteration(w, read_ok, survives)

(***************************************************************************)
(* PmuGroup::read (src/collection/pmu_group.cpp).  The group buffer is the *)
(* count word nr followed by kCounterCount values, 64 bits each; the       *)
(* kernel's answer to read(2) is the number of bytes it delivered (or -1)  *)
(* and the bytes themselves.                                               *)
(***************************************************************************)
otherThanRead ==
    <<storeVars, samplerVars, trackerVars, loaderVars, handleVars, topologyVars, ringVars, lifeVars, moveVars>>

\* sizeof(std::uint64_t)
WordSize == 8

\* sizeof(GroupReadFormat): nr and the values
GroupReadSize == WordSize * (1 + kCounterCount)

\* what the kernel has for the group: the count and the counter values, none zero
KernelData ==
    [nr : {kCounterCount - 1, kCounterCount, kCounterCount + 1},
     values : {<<11, 12, 13, 14, 15>>, <<21, 22, 23, 24, 25>>}]

\* results of ::read(fd, &data, sizeof(data)): -1, or the bytes delivered
BytesRead == {-1, 0, 4, 8, 16, 44, GroupReadSize}

\* the word at index i (1: nr) of a group buffer
WordOf(kernel, i) == IF i = 1 THEN kernel.nr ELSE kernel.values[i - 1]

\* the low count bytes of a word (little-endian); the words of KernelData are
\* below 2^24, so three bytes or more hold the whole word
lowBytes(word, count) == IF count >= 3 THEN word ELSE word % (2 ^ (8 * count))

\* GroupReadFormat data{} after the read: zero but for the bytes delivered
\* (a word delivered in part holds its low bytes)
bufferAfterRead(kernel, bytes_read) ==
    [i \in 1..(1 + kCounterCount) |->
        IF bytes_read >= i * WordSize THEN WordOf(kernel, i)
        ELSE IF bytes_read > (i - 1) * WordSize
        THEN lowBytes(WordOf(kernel, i), bytes_read - (i - 1) * WordSize)
        ELSE 0]

NoReading == <<>>

ReadResult(result, reading) == [result |-> result, reading |-> reading]

\* PmuGroup::read
PmuGroup_read(fds, bytes_read, kernel) ==
    IF ~isValid(fds) THEN ReadResult("InvalidState", NoReading)
    ELSE LET data == bufferAfterRead(kernel, bytes_read)
         IN  IF bytes_read < 0 THEN ReadResult("ReadFailed", NoReading)
             ELSE IF bytes_read < WordSize THEN ReadResult("ReadFailed", NoReading)
             ELSE IF data[1] # kCounterCount THEN ReadResult("ReadFailed", NoReading)
             ELSE ReadResult("ok", [cycles |-> data[2], instructions |-> data[3],
                                    llc_loads |-> data[4], llc_load_misses |-> data[5],
                                    branch_misses |-> data[6]])

NoReadCall ==
    [object |-> "none", valid |-> FALSE, bytes_read |-> -1,
     kernel |-> [nr |-> 0, values |-> <<0, 0, 0, 0, 0>>],
     returned |-> ReadResult("none", NoReading)]

InitRead == read_call = NoReadCall

\* a call of read() on the group object g
PmuGroup_readCall(g, bytes_read, kernel) ==
    /\ pmu_groups[g].alive
    /\ read_call' = [object |-> g, valid |-> isValid(pmu_groups[g].fds_),
                     bytes_read |-> bytes_read, kernel |-> kernel,
                     returned |-> PmuGroup_read(pmu_groups[g].fds_, bytes_read, kernel)]
    /\ UNCHANGED otherThanRead

\* groups are created and moved, and read
NextGroupRead ==
    \/ \E g \in GroupObjects : PmuGroup_create(g, 0, "EIO", "none")
    \/ \E dst \in GroupObjects, src \in GroupObjects : PmuGroup_moveConstruct(dst, src)
    \/ \E g \in GroupObjects, bytes_read \in BytesRead, kernel \in KernelData :
            PmuGroup_readCall(g, bytes_read, kernel)

(***************************************************************************)
(* Topology (src/core/topology.cpp): the CPU-list parser.  A text is a     *)
(* sequence of characters; CpuId is an unsigned integer of CpuIdBits bits  *)
(* (std::uint32_t in the code; narrower here, so that the largest value    *)
(* and the values beyond it are within reach of short texts).              *)
(***************************************************************************)
otherThanTopology == <<storeVars, samplerVars, trackerVars, loaderVars, handleVars, readVars, ringVars, lifeVars, moveVars>>

\* std::numeric_limits<CpuId>::max(), which is also the sentinel kInvalidCpuId
CpuIdMax == 2^CpuIdBits - 1

\* the characters trim() removes
kWhitespace == {" ", "\t", "\n", "\r"}

Digits == {"0", "1", "2", "3", "4", "5", "6", "7", "8", "9"}

DigitValue(c) ==
    CASE c = "0" -> 0 [] c = "1" -> 1 [] c = "2" -> 2 [] c = "3" -> 3 [] c = "4" -> 4
      [] c = "5" -> 5 [] c = "6" -> 6 [] c = "7" -> 7 [] c = "8" -> 8 [] c = "9" -> 9

\* the characters of the texts the parser is run on: digits, dash, comma, a
\* whitespace character and a character that is none of these
Alphabet == {"0", "1", "5", "7", "-", ",", " ", "x"}

\* all texts of at most n characters
RECURSIVE TextsUpTo(_)
TextsUpTo(n) ==
    IF n = 0 THEN {<<>>}
    ELSE LET shorter == TextsUpTo(n - 1)
         IN  shorter \cup {Append(t, c) : t \in {u \in shorter : Len(u) = n - 1},
                                          c \in Alphabet}

Texts == TextsUpTo(MaxText)

\* std::string_view::npos, as a position (positions are 1-based)
npos == 0

\* std::string_view::find(ch, pos)
find(str, ch, pos) ==
    LET hits == {i \in pos..Len(str) : str[i] = ch}
    IN  IF hits = {} THEN npos ELSE CHOOSE i \in hits : \A j \in hits : i <= j

\* trim: the text between the first and the last character that is not whitespace
trim(str) ==
    LET kept == {i \in 1..Len(str) : str[i] \notin kWhitespace}
    IN  IF kept = {} THEN <<>>
        ELSE SubSeq(str, CHOOSE i \in kept : \A j \in kept : i <= j,
                         CHOOSE i \in kept : \A j \in kept : i >= j)

\* the number a sequence of decimal digits denotes
RECURSIVE DecimalValue(_)
DecimalValue(digits) ==
    IF digits = <<>> THEN 0
    ELSE 10 * DecimalValue(SubSeq(digits, 1, Len(digits) - 1))
           + DigitValue(digits[Len(digits)])

\* std::from_chars into a CpuId: consumes the leading digits; ptr is the position
\* of the first character it did not consume
from_chars(str) ==
    LET n == CHOOSE k \in 0..Len(str) :
                 /\ \A i \in 1..k : str[i] \in Digits
                 /\ k < Len(str) => str[k + 1] \notin Digits
        value == DecimalValue(SubSeq(str, 1, n))
    IN  IF n = 0 THEN [ec |-> "invalid_argument", ptr |-> 1, value |-> 0]
        ELSE IF value > CpuIdMax
        THEN [ec |-> "result_out_of_range", ptr |-> n + 1, value |-> 0]
        ELSE [ec |-> "none", ptr |-> n + 1, value |-> value]

\* parseNumber
parseNumber(str) ==
    LET s == trim(str)
        r == from_chars(s)
    IN  IF s = <<>> THEN [ok |-> FALSE, value |-> 0]
        ELSE IF r.ec # "none" \/ r.ptr # Len(s) + 1 THEN [ok |-> FALSE, value |-> 0]
        ELSE [ok |-> TRUE, value |-> r.value]

\* what the parser hands back: a list, ParseError, or nothing at all
\* ("DoesNotReturn": the call is still appending when memory runs out)
Parsed(status, list) == [status |-> status, value |-> list]

\* the loop for (CpuId cpu = start; cpu <= end; ++cpu) result.push_back(cpu), with
\* ++cpu in CpuIdBits bits.  The loop's state is cpu alone, so a loop still running
\* after more iterations than there are CpuId values never ends.
RECURSIVE expandRange(_, _, _, _)
expandRange(cpu, end, result, iterations) ==
    IF ~(cpu <= end) THEN Parsed("ok", result)
    ELSE IF iterations > CpuIdMax + 1 THEN Parsed("DoesNotReturn", <<>>)
    ELSE expandRange((cpu + 1) % 2^CpuIdBits, end, Append(result, cpu), iterations + 1)

\* parseElement: result is the list so far; the list with the element's ids appended
parseElement(element, result) ==
    LET e == trim(element)
        dash_pos == find(e, "-", 1)
        number == parseNumber(e)
        first == parseNumber(SubSeq(e, 1, dash_pos - 1))
        last == parseNumber(SubSeq(e, dash_pos + 1, Len(e)))
    IN  IF e = <<>> THEN Parsed("ParseError", <<>>)
        ELSE IF dash_pos = npos
        THEN IF number.ok THEN Parsed("ok", Append(result, number.value))
             ELSE Parsed("ParseError", <<>>)
        ELSE IF ~first.ok THEN Parsed("ParseError", <<>>)
        ELSE IF ~last.ok THEN Parsed("ParseError", <<>>)
        ELSE IF first.value > last.value THEN Parsed("ParseError", <<>>)
        ELSE expandRange(first.value, last.value, result, 1)

\* the while loop of parseCpuList, from position pos of the trimmed content
RECURSIVE parseElements(_, _, _)
parseElements(str, pos, result) ==
    LET comma_pos == find(str, ",", pos)
        element == IF comma_pos = npos THEN SubSeq(str, pos, Len(str))
                   ELSE SubSeq(str, pos, comma_pos - 1)
        parsed == parseElement(element, result)
    IN  IF ~(pos <= Len(str)) THEN Parsed("ok", result)
        ELSE IF parsed.status # "ok" THEN parsed
        ELSE IF comma_pos = npos THEN parsed
        ELSE IF comma_pos + 1 > Len(str) THEN Parsed("ParseError", <<>>)
        ELSE parseElements(str, comma_pos + 1, parsed.value)

\* parseCpuList
parseCpuList(text) ==
    IF trim(text) = <<>> THEN Parsed("ParseError", <<>>)
    ELSE parseElements(trim(text), 1, <<>>)

(***************************************************************************)
(* Topology: the TopologyMap, built by its constructor or by               *)
(* loadFromSysfs, and the lookups on it (src/core/topology.cpp,            *)
(* src/core/events.cpp).  One map is built per run ("created once at       *)
(* startup, read-only afterwards").                                        *)
(***************************************************************************)
\* CPU ids the lists given to the constructor are made of, and the ids looked up:
\* a gap (1) and the largest CpuId value are among them
ListCpus == {0, 2, CpuIdMax}
QueryCpus == {0, 1, 2, CpuIdMax}

\* the lists of at most MaxList CPU ids, in any order, repetitions included
CpuLists == UNION {[1..n -> ListCpus] : n \in 0..MaxList}

\* the ascending sequence of the elements of a set of numbers (std::ranges::sort)
RECURSIVE sort(_)
sort(S) ==
    IF S = {} THEN <<>>
    ELSE LET least == CHOOSE x \in S : \A y \in S : x <= y
         IN  <<least>> \o sort(S \ {least})

\* the elements of a list
Range(list) == {list[i] : i \in 1..Len(list)}

\* a file of sysfs: present or not, and its bytes
File(bytes) == [exists |-> TRUE, bytes |-> bytes]
Absent == [exists |-> FALSE, bytes |-> <<>>]

\* what /sys/devices/cpu_core/cpus and /sys/devices/cpu_atom/cpus may hold
SysfsFiles ==
    {Absent, File(<<>>), File(<<"\n">>), File(<<"0", "-", "1", "\n">>),
     File(<<"3", "\n">>), File(<<"1", ",", "0", "\n">>), File(<<"0", ",", "0", "\n">>),
     File(<<"x", "\n">>), File(<<"1", "-", "0", "\n">>),
     File(<<"7", "\n">>), File(<<"6", "-", "7", "\n">>)}

\* the directories /sys/devices/system/cpu/cpu<N> and the content of their
\* topology/core_type file ("absent": no such file)
SysCpus == 0..2
CoreTypeFiles == {"absent", "Core", "intel_atom", "core"}
CpuDirs == [SysCpus -> CoreTypeFiles]

\* readFileContents: the first line of the file
readFileContents(file) ==
    IF ~file.exists THEN [ok |-> FALSE, error |-> "SysfsNotFound", content |-> <<>>]
    ELSE IF file.bytes = <<>> THEN [ok |-> FALSE, error |-> "ParseError", content |-> <<>>]
    ELSE [ok |-> TRUE, error |-> "none",
          content |-> IF find(file.bytes, "\n", 1) = npos THEN file.bytes
                      ELSE SubSeq(file.bytes, 1, find(file.bytes, "\n", 1) - 1)]

\* parseCoreType
parseCoreType(text) ==
    IF text \in {"Core", "intel_core"} THEN "PCore"
    ELSE IF text \in {"Atom", "intel_atom"} THEN "ECore"
    ELSE "ParseError"

\* a TopologyMap; cpu_to_type_[c + 1] is the entry of CPU c
Map(p_cores, e_cores, cpu_to_type) ==
    [state |-> "built", p_cores_ |-> p_cores, e_cores_ |-> e_cores,
     cpu_to_type_ |-> cpu_to_type]

NoMap == [state |-> "none", p_cores_ |-> <<>>, e_cores_ |-> <<>>, cpu_to_type_ |-> <<>>]
Crashed == [state |-> "crashed", p_cores_ |-> <<>>, e_cores_ |-> <<>>, cpu_to_type_ |-> <<>>]

\* the largest element of a list, 0 for the empty list
maxCpu(list) ==
    IF list = <<>> THEN 0 ELSE CHOOSE x \in Range(list) : \A y \in Range(list) : x >= y

\* buildLookupTable: the table is resized to max_cpu + 1 entries, computed in
\* CpuIdBits bits, filled with Unknown, then the P-core and the E-core entries
\* are written.  A write beyond the size is undefined: the run ends there, or it
\* goes on with the table as it is.
buildLookupTable(p_cores, e_cores) ==
    LET max_cpu == IF maxCpu(p_cores) >= maxCpu(e_cores) THEN maxCpu(p_cores)
                   ELSE maxCpu(e_cores)
        size == (max_cpu + 1) % 2^CpuIdBits
        table == [i \in 1..size |->
                    IF i - 1 \in Range(e_cores) THEN "ECore"
                    ELSE IF i - 1 \in Range(p_cores) THEN "PCore"
                    ELSE "Unknown"]
    IN  IF \E c \in Range(p_cores) \cup Range(e_cores) : c >= size
        THEN {Crashed, Map(p_cores, e_cores, table)}
        ELSE {Map(p_cores, e_cores, table)}

\* TopologyMap::TopologyMap(p_cores, e_cores): the maps the construction may yield
TopologyMap(p_cores, e_cores) == buildLookupTable(p_cores, e_cores)

\* TopologyMap::getCoreType
getCoreType(map, cpu_id) ==
    IF cpu_id >= Len(map.cpu_to_type_) THEN "InvalidCpuId"
    ELSE IF map.cpu_to_type_[cpu_id + 1] = "Unknown" THEN "InvalidCpuId"
    ELSE map.cpu_to_type_[cpu_id + 1]

\* TopologyMap::isHybrid
isHybrid(map) == map.p_cores_ # <<>> /\ map.e_cores_ # <<>>

\* what a load returns: an error and no map, or a map
Loaded(result, map) == [result |-> result, map |-> map]

\* loadFromCoreType: the fallback over the per-CPU core_type files
loadFromCoreType(dir_exists, cpu_dirs) ==
    LET p_cores == {c \in SysCpus : cpu_dirs[c] # "absent"
                                    /\ parseCoreType(cpu_dirs[c]) = "PCore"}
        e_cores == {c \in SysCpus : cpu_dirs[c] # "absent"
                                    /\ parseCoreType(cpu_dirs[c]) = "ECore"}
    IN  IF ~dir_exists THEN {Loaded("SysfsNotFound", NoMap)}
        ELSE IF p_cores = {} /\ e_cores = {} THEN {Loaded("SysfsNotFound", NoMap)}
        ELSE IF p_cores = {} \/ e_cores = {} THEN {Loaded("NotHybridCpu", NoMap)}
        ELSE {Loaded("ok", map) : map \in TopologyMap(sort(p_cores), sort(e_cores))}

\* TopologyMap::loadFromSysfs
loadFromSysfs(p_file, e_file, dir_exists, cpu_dirs) ==
    LET p_core_content == readFileContents(p_file)
        p_cores == parseCpuList(p_core_content.content)
        e_core_content == readFileContents(e_file)
        e_cores == parseCpuList(e_core_content.content)
    IN  IF p_core_content.ok
        THEN IF p_cores.status # "ok" THEN {Loaded(p_cores.status, NoMap)}
             ELSE IF ~e_core_content.ok THEN {Loaded("NotHybridCpu", NoMap)}
             ELSE IF e_cores.status # "ok" THEN {Loaded(e_cores.status, NoMap)}
             ELSE {Loaded("ok", map) : map \in TopologyMap(p_cores.value, e_cores.value)}
        ELSE loadFromCoreType(dir_exists, cpu_dirs)

\* the migrations that are classified: the CPUs matter, the rest is payload
ClassifiedEvents ==
    [timestamp_ns : {1}, pid : {1}, tid : {42},
     src_cpu : QueryCpus, dst_cpu : QueryCpus, comm : {"app"}]

classifyMigration_bySource(event, map) ==
    IF getCoreType(map, event.src_cpu) = "InvalidCpuId" THEN "Unknown"
    ELSE IF getCoreType(map, event.src_cpu) = "PCore" THEN "PToP" ELSE "EToE"
\* classifyMigration
classifyMigration(event, map) ==
    LET src_type == getCoreType(map, event.src_cpu)
        dst_type == getCoreType(map, event.dst_cpu)
    IN  IF src_type = "InvalidCpuId" \/ dst_type = "InvalidCpuId" THEN "Unknown"
        ELSE IF src_type = "PCore"
        THEN IF dst_type = "PCore" THEN "PToP" ELSE "PToE"
        ELSE IF dst_type = "PCore" THEN "EToP" ELSE "EToE"

\* the record of the last call on the topology
TopologyCall(op, p_file, e_file, cpu_id, event, result) ==
    [op |-> op, p_file |-> p_file, e_file |-> e_file, cpu_id |-> cpu_id,
     event |-> event, result |-> result]

NoEvent == [timestamp_ns |-> 0, pid |-> 0, tid |-> 0, src_cpu |-> 0, dst_cpu |-> 0,
            comm |-> ""]

NoTopologyCall == TopologyCall("none", Absent, Absent, 0, NoEvent, "none")

\* a TopologyMap is constructed from two lists
newTopologyMap(p_cores, e_cores) ==
    /\ topology = NoMap
    /\ topology_call = NoTopologyCall
    /\ topology' \in TopologyMap(p_cores, e_cores)
    /\ topology_call' = TopologyCall("TopologyMap", Absent, Absent, 0, NoEvent, "ok")
    /\ UNCHANGED <<content, parse_result>>
    /\ UNCHANGED otherThanTopology

\* the call TopologyMap::loadFromSysfs() over a sysfs with these files
loadFromSysfsCall(p_file, e_file, dir_exists, cpu_dirs) ==
    /\ topology = NoMap
    /\ topology_call = NoTopologyCall
    /\ \E loaded \in loadFromSysfs(p_file, e_file, dir_exists, cpu_dirs) :
         /\ topology' = loaded.map
         /\ topology_call' = TopologyCall("loadFromSysfs", p_file, e_file, 0, NoEvent,
                                          loaded.result)
    /\ UNCHANGED <<content, parse_result>>
    /\ UNCHANGED otherThanTopology

\* the call getCoreType(cpu_id) on the map
getCoreTypeCall(cpu_id) ==
    /\ topology.state = "built"
    /\ topology_call' = TopologyCall("getCoreType", Absent, Absent, cpu_id, NoEvent,
                                     getCoreType(topology, cpu_id))
    /\ UNCHANGED <<topology, content, parse_result>>
    /\ UNCHANGED otherThanTopology

\* the call classifyMigration(event, topology); both arguments are const references
classifyMigrationCall(event) ==
    /\ topology.state = "built"
    /\ topology_call' = TopologyCall("classifyMigration", Absent, Absent, 0, event,
                                     classifyMigration(event, topology))
    /\ UNCHANGED <<topology, content, parse_result>>
    /\ UNCHANGED otherThanTopology

NextTopology ==
    \/ \E p_cores \in CpuLists, e_cores \in CpuLists : newTopologyMap(p_cores, e_cores)
    \/ \E p_file \in SysfsFiles, e_file \in SysfsFiles, dir_exists \in BOOLEAN,
          cpu_dirs \in CpuDirs : loadFromSysfsCall(p_file, e_file, dir_exists, cpu_dirs)
    \/ \E cpu_id \in QueryCpus : getCoreTypeCall(cpu_id)
    \/ \E event \in ClassifiedEvents : classifyMigrationCall(event)

\* no call made yet
NoResult == Parsed("none", <<>>)

InitTopology ==
    /\ content = <<>>
    /\ parse_result = NoResult
    /\ topology = NoMap
    /\ topology_call = NoTopologyCall

\* the parser is about to be called on any text
InitParse ==
    /\ InitStore /\ InitSampler /\ InitTracker /\ InitLoader /\ InitHandles /\ InitRead
    /\ InitRing /\ InitLife /\ InitMove
    /\ content \in Texts
    /\ parse_result = NoResult
    /\ topology = NoMap
    /\ topology_call = NoTopologyCall

\* the call parseCpuList(content)
parseCpuListCall ==
    /\ parse_result = NoResult
    /\ parse_result' = parseCpuList(content)
    /\ UNCHANGED <<content, topology, topology_call>>
    /\ UNCHANGED otherThanTopology

NextParse == parseCpuListCall

Init ==
    /\ InitStore /\ InitSampler /\ InitTracker /\ InitLoader /\ InitHandles /\ InitTopology
    /\ InitRead /\ InitRing /\ InitLife /\ InitMove

SpecStore == Init /\ [][NextStore]_vars

SpecSampler == Init /\ [][NextSampler]_vars

SpecTracker == Init /\ [][NextTracker]_vars

SpecSamplerLife == Init /\ [][NextSamplerLife]_vars

SpecTrackerRaw == Init /\ [][NextTrackerRaw]_vars

SpecAttach == Init /\ [][NextAttach]_vars

SpecHandles == Init /\ [][NextHandles]_vars

SpecMovedFrom == Init /\ [][NextMovedFrom]_vars

SpecParse == InitParse /\ [][NextParse]_vars

SpecTopology == Init /\ [][NextTopology]_vars

SpecGroupRead == Init /\ [][NextGroupRead]_vars

SpecRing == Init /\ [][NextRing]_vars

SpecTrackerLife == Init /\ [][NextTrackerLife]_vars

SpecSamplerMove == Init /\ [][NextSamplerMove]_vars

\* one step of the worker thread, whatever its position
workerStep ==
    \/ workerCheck
    \/ \E read_ok \in BOOLEAN : workerRead(read_ok)
    \/ workerCallback
    \/ workerCount
    \/ workerSleep

\* The sampler under fair scheduling: the worker thread keeps being scheduled
\* (its read, the user callback and its sleep all return), and the controller
\* inside stop() resumes when join() can return and goes on to the disable.
SpecSamplerFair ==
    /\ Init
    /\ [][NextSampler]_vars
    /\ WF_vars(workerStep)
    /\ WF_vars(stopJoin)
    /\ WF_vars(\E disable_ok \in BOOLEAN : stopDisable(disable_ok))

(***************************************************************************)
(* EventStore: properties.                                                 *)
(***************************************************************************)
IsSortedByTimestamp(s) ==
    \A i \in 1..Len(s) : \A j \in i..Len(s) : s[i].timestamp_ns <= s[j].timestamp_ns

\* number of positions of s that hold e
Count(s, e) == Cardinality({i \in 1..Len(s) : s[i] = e})

\* the last call inserted an event older than one the sequence s already held
InsertedOutOfOrder(op, s) ==
    /\ store_call.op = op
    /\ Len(s) >= 2
    /\ store_call.start_ns < s[Len(s)].timestamp_ns

AtOrBefore(t, tid) ==
    {i \in 1..Len(pmu_samples_) :
        pmu_samples_[i].tid = tid /\ pmu_samples_[i].timestamp_ns <= t}

\* positions of the stored samples of thread tid that are not before time t
AtOrAfter(t, tid) ==
    {i \in 1..Len(pmu_samples_) :
        pmu_samples_[i].tid = tid /\ pmu_samples_[i].timestamp_ns >= t}

\* C2: pmuBeforeMigration(m) returns the stored sample of thread m.tid with the
\* largest timestamp_ns <= m.timestamp_ns (equal timestamps are eligible, samples
\* of other threads in between are skipped), and returns empty exactly when no
\* stored sample of that thread has timestamp_ns <= m.timestamp_ns.
C2_PmuBeforeIsLatestAtOrBefore ==
    store_call.op = "pmuBeforeMigration" =>
        LET eligible == AtOrBefore(store_call.start_ns, store_call.tid)
        IN  /\ (store_call.sample = <<>>) <=> (eligible = {})
            /\ store_call.sample # <<>> =>
                   /\ \E i \in eligible : pmu_samples_[i] = store_call.sample[1]
                   /\ \A i \in eligible :
                          pmu_samples_[i].timestamp_ns <= store_call.sample[1].timestamp_ns

\* a sample was returned although a later sample of another thread lies at or
\* before the migration
C2_Witness ==
    /\ store_call.op = "pmuBeforeMigration"
    /\ store_call.sample # <<>>
    /\ \E i \in 1..Len(pmu_samples_) :
           /\ pmu_samples_[i].tid # store_call.tid
           /\ pmu_samples_[i].timestamp_ns > store_call.sample[1].timestamp_ns
           /\ pmu_samples_[i].timestamp_ns <= store_call.start_ns

\* C3: pmuAfterMigration(m) returns the stored sample of thread m.tid with the
\* smallest timestamp_ns >= m.timestamp_ns (equal timestamps are eligible, samples
\* of other threads in between are skipped), and returns empty exactly when no
\* stored sample of that thread has timestamp_ns >= m.timestamp_ns.
C3_PmuAfterIsEarliestAtOrAfter ==
    store_call.op = "pmuAfterMigration" =>
        LET eligible == AtOrAfter(store_call.start_ns, store_call.tid)
        IN  /\ (store_call.sample = <<>>) <=> (eligible = {})
            /\ store_call.sample # <<>> =>
                   /\ \E i \in eligible : pmu_samples_[i] = store_call.sample[1]
                   /\ \A i \in eligible :
                          pmu_samples_[i].timestamp_ns >= store_call.sample[1].timestamp_ns

\* a sample was returned although an earlier sample of another thread lies at or
\* after the migration
C3_Witness ==
    /\ store_call.op = "pmuAfterMigration"
    /\ store_call.sample # <<>>
    /\ \E i \in 1..Len(pmu_samples_) :
           /\ pmu_samples_[i].tid # store_call.tid
           /\ pmu_samples_[i].timestamp_ns < store_call.sample[1].timestamp_ns
           /\ pmu_samples_[i].timestamp_ns >= store_call.start_ns

\* C4: migrationsInRange(a, b), for any a and b (a > b and ranges before or
\* after all events included), contains exactly the stored migrations whose
\* timestamp_ns lies in [a, b], each as many times as it is stored, in
\* non-decreasing timestamp order.
C4_RangeIsExactlyTheClosedInterval ==
    store_call.op = "migrationsInRange" =>
        /\ IsSortedByTimestamp(store_call.range)
        /\ \A e \in MigrationEvent :
               Count(store_call.range, e) =
                   IF store_call.start_ns <= e.timestamp_ns /\ e.timestamp_ns <= store_call.end_ns
                   THEN Count(migrations_, e)
                   ELSE 0

\* a range query returned some of the stored migrations, one of them stored
\* exactly at the end of the range, and left others out
C4_Witness ==
    /\ store_call.op = "migrationsInRange"
    /\ Len(store_call.range) >= 1
    /\ Len(store_call.range) < Len(migrations_)
    /\ store_call.range[Len(store_call.range)].timestamp_ns = store_call.end_ns

\* every order in which the elements of s at the positions in idx can be arranged
RECURSIVE OrdersOf(_, _)
OrdersOf(s, idx) ==
    IF idx = {} THEN {<<>>}
    ELSE UNION {{<<s[i]>> \o rest : rest \in OrdersOf(s, idx \ {i})} : i \in idx}

\* every insertion order of the collection of events that s holds
InsertionOrders(s) == OrdersOf(s, 1..Len(s))

\* the sequence a store holds after the events of log were added to it in order
RECURSIVE InsertAll(_)
InsertAll(log) ==
    IF log = <<>> THEN <<>>
    ELSE sortedInsert(InsertAll(SubSeq(log, 1, Len(log) - 1)), log[Len(log)])

TimestampsOf(s) == [i \in 1..Len(s) |-> s[i].timestamp_ns]

\* two events of s share a timestamp and differ in another field
HasDistinctTies(s) ==
    \E i \in 1..Len(s) : \E j \in 1..Len(s) :
        s[i].timestamp_ns = s[j].timestamp_ns /\ s[i] # s[j]

\* C5 as stated: for any two insertion orders of the same collection of
\* migrations (or of PMU samples), events that share a timestamp but differ in
\* other fields included, the stored sequence is the same: inserting the stored
\* collection in any order gives the sequence the store holds.
C5_Original_OrderIndependent ==
    /\ \A o \in InsertionOrders(migrations_) : InsertAll(o) = migrations_
    /\ \A o \in InsertionOrders(pmu_samples_) : InsertAll(o) = pmu_samples_

\* C5 amended: for any two insertion orders of the same collection, the stored
\* sequences have the same timestamps position by position and hold every event
\* the same number of times; they are the same sequence whenever the events
\* that share a timestamp are equal in every field.
C5_OrderIndependentUpToTies ==
    /\ \A o \in InsertionOrders(migrations_) :
           LET r == InsertAll(o)
           IN  /\ TimestampsOf(r) = TimestampsOf(migrations_)
               /\ \A e \in MigrationEvent : Count(r, e) = Count(migrations_, e)
               /\ ~HasDistinctTies(migrations_) => r = migrations_
    /\ \A o \in InsertionOrders(pmu_samples_) :
           LET r == InsertAll(o)
           IN  /\ TimestampsOf(r) = TimestampsOf(pmu_samples_)
               /\ \A e \in PmuSample : Count(r, e) = Count(pmu_samples_, e)
               /\ ~HasDistinctTies(pmu_samples_) => r = pmu_samples_

\* three migrations were inserted out of timestamp order, two of them sharing a
\* timestamp and differing in tid
C5_Witness ==
    /\ Len(migrations_) >= 3
    /\ InsertedOutOfOrder("addMigration", migrations_)
    /\ HasDistinctTies(migrations_)

(***************************************************************************)
(* PmuSampler: properties.                                                 *)
(***************************************************************************)
\* C7: start() on a sampler that is already running returns InvalidState and
\* changes nothing: the worker keeps running, no second worker is launched, the
\* group is not reset and the sample counter is not zeroed.
C7_StartWhileRunningChangesNothing ==
    [][\A reset_ok \in BOOLEAN, enable_ok \in BOOLEAN :
           (running_ /\ start(reset_ok, enable_ok)) =>
               /\ last_call'.op = "start"
               /\ last_call'.result = "InvalidState"
               /\ UNCHANGED <<running_, sample_count_, group_, sampling_thread_,
                              stop_requested, callbacks, launched>>]_vars

\* start() was rejected on a running sampler whose worker is alive, whose
\* counters have counted and which has delivered a sample
C7_Witness ==
    /\ last_call = [op |-> "start", result |-> "InvalidState", from |-> "running"]
    /\ running_
    /\ sampling_thread_ \in WorkerAlive
    /\ group_.cycles > 0
    /\ sample_count_ > 0

\* C8: start() on a non-running sampler: if the reset fails, or the reset
\* succeeds and the enable fails, start returns that error, launches no worker
\* and isRunning() stays false; only when both succeed is the sample counter
\* zeroed, the running flag set and exactly one worker launched.
C8_StartOutcomeFollowsResetAndEnable ==
    [][\A reset_ok \in BOOLEAN, enable_ok \in BOOLEAN :
           (~running_ /\ start(reset_ok, enable_ok)) =>
               IF ~(group_.valid /\ reset_ok) \/ ~enable_ok
               THEN /\ last_call'.result = "InvalidState"
                    /\ last_call'.from = (IF ~(group_.valid /\ reset_ok) THEN "reset" ELSE "enable")
                    /\ ~running_'
                    /\ sampling_thread_' = sampling_thread_
                    /\ sampling_thread_' \notin WorkerAlive
                    /\ launched' = launched
                    /\ sample_count_' = sample_count_
               ELSE /\ last_call'.result = "ok"
                    /\ sample_count_' = 0
                    /\ running_'
                    /\ sampling_thread_' \in WorkerAlive
                    /\ launched' = launched + 1]_vars

\* start() failed in enable after a successful reset, on a sampler that had
\* run a session before
C8_Witness ==
    /\ last_call = [op |-> "start", result |-> "InvalidState", from |-> "enable"]
    /\ ~running_
    /\ sampling_thread_ = "none"
    /\ launched > 0
    /\ sample_count_ > 0

\* a step that is a successful start()
StartSucceeds ==
    /\ \E reset_ok \in BOOLEAN, enable_ok \in BOOLEAN : start(reset_ok, enable_ok)
    /\ last_call'.result = "ok"

\* C9: stop() on a running sampler: the worker has terminated (been joined)
\* before the group is disabled; a failing disable is ignored; once stop has
\* returned isRunning() is false, and the callback is not invoked and
\* sampleCount() does not change until a later successful start().
C9_StopJoinsBeforeDisableAndQuiesces ==
    [][/\ (group_.enabled /\ ~group_'.enabled) => sampling_thread_ = "none"
       /\ \A disable_ok \in BOOLEAN :
              stopDisable(disable_ok) =>
                  /\ sampling_thread_ = "none"
                  /\ ~running_'
                  /\ ctl_pc' = "idle"
                  /\ last_call'.result = "stopped"
       /\ (ctl_pc = "idle" /\ ~running_) =>
              \/ StartSucceeds
              \/ callbacks' = callbacks /\ sample_count_' = sample_count_]_vars

\* stop() has returned on a sampler that had delivered a sample, its disable
\* having failed
C9_Witness ==
    /\ last_call = [op |-> "stop", result |-> "stopped", from |-> "disable"]
    /\ ctl_pc = "idle"
    /\ ~running_
    /\ group_.enabled
    /\ callbacks > 0

\* C10: after stop() returns, sampleCount() equals the number of callback
\* invocations since the most recent successful start(); the count is zeroed by
\* start and incremented only for an iteration whose group read succeeded and
\* whose callback was invoked.
C10_SampleCountEqualsCallbacks ==
    /\ []((ctl_pc = "idle" /\ ~running_) => sample_count_ = callbacks)
    /\ [][/\ sample_count_' # sample_count_ =>
                 \/ StartSucceeds /\ sample_count_' = 0
                 \/ /\ workerCount
                    /\ sample_count_' = sample_count_ + 1
                    /\ callbacks = sample_count_'
          /\ callbacks' # callbacks =>
                 \/ StartSucceeds /\ callbacks' = 0
                 \/ workerCallback /\ callbacks' = callbacks + 1
          /\ (sampling_thread_ # "callback" /\ sampling_thread_' = "callback") =>
                 workerRead(TRUE)]_vars

\* stop() has returned from a second session in which reads succeeded
C10_Witness ==
    /\ last_call.op = "stop"
    /\ last_call.result = "stopped"
    /\ ctl_pc = "idle"
    /\ ~running_
    /\ launched = 2
    /\ sample_count_ = MaxSamples

\* C11: under fair scheduling a stop() that found the sampler running and
\* asked the worker to stop eventually returns with the worker joined and the
\* sampler not running; the worker leaves its loop only from the loop
\* condition, after seeing the stop request, never from the middle of an
\* iteration.
C11_StopEventuallyReturns ==
    /\ (ctl_pc = "joining") ~> (ctl_pc = "idle" /\ ~running_ /\ sampling_thread_ = "none")
    /\ [][(sampling_thread_ \in WorkerAlive /\ sampling_thread_' \notin WorkerAlive)
            => (sampling_thread_ = "check" /\ stop_requested
                /\ sampling_thread_' = "exited")]_vars

\* stop() is waiting in join() while the worker is in the middle of an iteration
C11_Witness ==
    /\ ctl_pc = "joining"
    /\ stop_requested
    /\ sampling_thread_ = "callback"

\* C12: the destructor of a running sampler performs stop() first: it asks the
\* worker to stop and waits for it, then disables the group; the descriptors
\* of the group are closed only after that, with the worker joined, running_
\* false and (unless the disable ioctl failed) the counters disabled; from the
\* moment the members are being released no worker exists.
C12_DestructionStopsBeforeRelease ==
    /\ [][(lifetime = "alive" /\ lifetime' # "alive" /\ running_)
            => (/\ lifetime' = "destructing"
                /\ ctl_pc' \in {"joining", "disabling"}
                /\ (sampling_thread_ # "none" => stop_requested')
                /\ group_' = group_)]_vars
    /\ [][(group_.valid /\ ~group_'.valid /\ lifetime' = "destroyed"
            /\ last_call.result = "stopped")
            => (/\ sampling_thread_ = "none"
                /\ ~running_
                /\ ctl_pc = "idle"
                /\ (last_call.from = "none" => ~group_.enabled))]_vars
    /\ [](lifetime \in {"closing", "destroyed"}
            => (sampling_thread_ = "none" /\ ~running_ /\ ctl_pc = "idle"))
    /\ [](lifetime = "destroyed" => ~group_.valid)

\* a sampler destroyed while it was running, after it had delivered samples
C12_Witness ==
    /\ lifetime = "destroyed"
    /\ last_call = [op |-> "stop", result |-> "stopped", from |-> "none"]
    /\ callbacks > 0
    /\ ~group_.valid

\* C13: stop() on a sampler that is not running (never started, already
\* stopped, or moved-from) returns at once: it does not join, does not disable
\* the group and changes no field; once a stop() has returned the sampler is
\* not running, so a second stop() changes nothing.
C13_StopWhenNotRunningIsNoOp ==
    /\ [][(stop /\ ~running_)
            => (/\ UNCHANGED <<tid_, group_, callback_, interval_, sampling_thread_,
                               sample_count_, running_, stop_requested>>
                /\ ctl_pc' = "idle"
                /\ last_call' = [op |-> "stop", result |-> "noop", from |-> "none"])]_vars
    /\ []((lifetime = "alive" /\ ctl_pc = "idle" /\ last_call.op = "stop") => ~running_)

\* stop() has returned on a moved-from sampler
C13_Witness ==
    /\ lifetime = "alive"
    /\ tid_ = 0
    /\ ~group_.valid
    /\ last_call = [op |-> "stop", result |-> "noop", from |-> "none"]

WellFormed(records) == SelectSeq(records, LAMBDA r : r.size >= WireSize)

\* C6: for every well-formed record (size >= the 40-byte wire size) that is in
\* the ring buffer when poll drains it, the user callback is invoked once with a
\* MigrationEvent carrying that record's fields, and eventCount() grows by one.
C6_EveryWellFormedRecordIsDelivered ==
    [][(poll /\ ring_buf_.valid) =>
           /\ delivered' = [i \in 1..Len(WellFormed(events)) |->
                                [f \in {"timestamp_ns", "pid", "tid", "src_cpu", "dst_cpu", "comm"}
                                    |-> WellFormed(events)[i][f]]]
           /\ event_count_' = event_count_ + Len(WellFormed(events))]_vars

\* the handler has run: the kernel clock has ticked
HandlerRan == ktime' # ktime

\* C15: with a non-zero target PID in slot 0 of the configuration map, a run of
\* the handler in the context of a task of another process leaves the ring
\* buffer as it is and attempts no reservation; with 0 in the slot no run is
\* filtered: it reserves, and submits whenever the ring has room.
C15_PidFilterDropsOtherProcesses ==
    [][HandlerRan =>
        /\ (migration_config # 0 /\ handler_log'.pid # migration_config)
             => (events' = events /\ handler_log'.outcome = "filtered")
        /\ migration_config = 0
             => (/\ handler_log'.outcome = IF Len(events) < MaxRing
                                           THEN "submitted" ELSE "dropped"
                 /\ (Len(events) < MaxRing => Len(events') = Len(events) + 1))]_vars

\* a run for another process was filtered out after a record of the target was submitted
C15_Witness ==
    /\ migration_config # 0
    /\ handler_log.outcome = "filtered"
    /\ Len(events) >= 1
    /\ events[Len(events)].pid = migration_config

\* C16: the record the handler submits carries the process id and the thread
\* id of the task that was migrated, whichever task ran the handler.
C16_RecordCarriesMigratedTask ==
    [][(HandlerRan /\ Len(events') = Len(events) + 1) =>
        \A current \in KernelTasks, migrated \in KernelTasks :
          \A orig_cpu \in KernelCpus, dest_cpu \in KernelCpus :
            handle_sched_migrate_task(current, migrated, orig_cpu, dest_cpu)
            => (/\ events'[Len(events')].pid = migrated.pid
                /\ events'[Len(events')].tid = migrated.tid)]_vars

\* C17: a run of the handler that passes the filter while the ring has no room
\* ends in that one step with the ring's records unchanged and nothing
\* submitted; a poll() empties the ring, and a run that passes the filter
\* while the ring has room appends one 40-byte record behind the ones there.
C17_OverflowDropsOnlyTheNewRecord ==
    /\ [][(HandlerRan /\ (migration_config = 0 \/ handler_log'.pid = migration_config))
            => IF Len(events) >= MaxRing
               THEN /\ events' = events
                    /\ handler_log'.outcome = "dropped"
               ELSE /\ Len(events') = Len(events) + 1
                    /\ SubSeq(events', 1, Len(events)) = events
                    /\ events'[Len(events')].size = 40
                    /\ events'[Len(events')].timestamp_ns = ktime'
                    /\ handler_log'.outcome = "submitted"]_vars
    /\ [][(poll /\ ring_buf_.valid) => events' = <<>>]_vars
    /\ [](Len(events) <= MaxRing)

\* a reservation failed on the full ring, then the consumer polled the ring
\* empty while the program is attached: the next run has room again
C17_Witness ==
    /\ handler_log.outcome = "dropped"
    /\ tracker_call = [op |-> "poll", result |-> MaxRing]
    /\ events = <<>>
    /\ loader_.attached
    /\ ktime < MaxKtime

\* C18: whatever context the consumer callback is called with, running it over
\* the records of the ring gives what running it over the records of at least
\* 40 bytes alone gives: a shorter record invokes no user callback and counts
\* nothing, and the records behind it are processed as if it were not there.
\* poll() consumes every record, the short ones included.
C18_ShortRecordsAreSkipped ==
    /\ [](\A ctx \in CallbackContexts :
            LET st     == [delivered |-> <<>>, event_count |-> event_count_]
                result == consumeAll(st, ctx, events)
            IN  /\ result = consumeAll(st, ctx, WellFormed(events))
                /\ Len(result.delivered) <= Len(WellFormed(events))
                /\ result.event_count = event_count_ + Len(result.delivered))
    /\ [][(poll /\ ring_buf_.valid)
            => (/\ events' = <<>>
                /\ tracker_call'.result = Len(events)
                /\ Len(delivered') <= Len(WellFormed(events))
                /\ event_count_' = event_count_ + Len(delivered'))]_vars

\* a poll() has consumed a record shorter than 40 bytes and a full record behind it
C18_Witness ==
    /\ tracker_call.op = "poll"
    /\ \E i \in 1..Len(consumed_sizes) : \E j \in (i + 1)..Len(consumed_sizes) :
           consumed_sizes[i] < 40 /\ consumed_sizes[j] >= 40

\* C19: stop() detaches the program and leaves the ring buffer and its
\* consumer as they are; a poll() consumes every record the ring holds,
\* whether the tracker is running or stopped; the ring gains a record only
\* while the program is attached.
C19_StopKeepsSubmittedRecords ==
    /\ [][trackerStop
            => (/\ events' = events
                /\ ring_buf_' = ring_buf_
                /\ ~loader_'.attached
                /\ ~tracker_running_')]_vars
    /\ [][(poll /\ ring_buf_.valid)
            => (/\ events' = <<>>
                /\ tracker_call'.result = Len(events)
                /\ Len(consumed_sizes') = Len(events))]_vars
    /\ [][Len(events') > Len(events) => (loader_.attached /\ tracker_running_)]_vars
    /\ [](ring_buf_.valid)

\* the last call is a poll() on the stopped tracker that consumed a record
C19_Witness ==
    /\ ~tracker_running_
    /\ ~loader_.attached
    /\ tracker_call.op = "poll"
    /\ tracker_call.result >= 1

\* C20: start() on a running tracker and attach() on an attached loader
\* return success whatever a further attach of the program would return, and
\* leave the tracker running and the loader attached; stop() on a tracker
\* that is not running and detach() on a loader that is not attached change
\* nothing.
C20_StartAndAttachAreIdempotent ==
    /\ [][\A err \in AttachErrnos :
            (trackerStart(err) /\ tracker_running_)
            => (/\ tracker_call'.result = "ok"
                /\ loader_' = loader_
                /\ tracker_running_')]_vars
    /\ [][(trackerStop /\ ~tracker_running_)
            => UNCHANGED <<loader_, tracker_running_, ring_buf_, events>>]_vars
    /\ [][\A err \in AttachErrnos :
            (loaderAttach(err) /\ ebpf_loader.attached)
            => (/\ loader_call'.result = "ok"
                /\ ebpf_loader' = ebpf_loader)]_vars
    /\ [][(loaderDetach /\ ~ebpf_loader.attached) => ebpf_loader' = ebpf_loader]_vars
    /\ [](tracker_running_ => loader_.attached)

\* attach() has returned success on the attached loader, next to a running tracker
C20_Witness ==
    /\ loader_call = [op |-> "attach", attached |-> TRUE, result |-> "ok"]
    /\ ebpf_loader.attached
    /\ tracker_running_
    /\ tracker_call = [op |-> "start", result |-> "ok"]

(***************************************************************************)
(* PmuGroup and PmuCounter: properties.                                    *)
(***************************************************************************)
\* the places, over all objects of both classes, that hold the descriptor fd
Holders(fd) ==
    UNION {{<<g, i>> : i \in {j \in 1..kCounterCount : pmu_groups[g].fds_[j] = fd}} :
             g \in GroupObjects}
      \cup {<<c, 1>> : c \in {d \in CounterObjects : pmu_counters[d].fd_ = fd}}

\* the last call moved one object into another one
HandleMoved ==
    handle_call'.op \in {"move-construct", "move-assign"} /\ handle_call'.slot # handle_call'.from

\* C21: over any sequence of create, move construction, move assignment and
\* destruction of PmuGroup and PmuCounter objects, no descriptor is closed twice, a
\* descriptor that is not yet closed is held by exactly one object and a closed one
\* by none (so none is leaked), the source of a move holds only the invalid
\* sentinel afterwards, and destroying an object that holds the sentinel closes nothing.
C21_EveryDescriptorIsClosedExactlyOnce ==
    /\ [](\A fd \in 1..Len(closes) :
            /\ closes[fd] <= 1
            /\ Cardinality(Holders(fd)) = 1 - closes[fd])
    /\ [][(HandleMoved /\ handle_call'.object = "PmuGroup") =>
               pmu_groups'[handle_call'.from].fds_ = InvalidFds]_vars
    /\ [][(HandleMoved /\ handle_call'.object = "PmuCounter") =>
               pmu_counters'[handle_call'.from].fd_ = kInvalidFd]_vars
    /\ [][(handle_call'.op = "destroy" /\ handle_call'.fd = kInvalidFd) =>
               closes' = closes]_vars

\* a group was move-assigned onto a group that owned descriptors: the destination's
\* former descriptors are closed, it holds the source's, and the source holds none
C21_Witness ==
    /\ handle_call.object = "PmuGroup"
    /\ handle_call.op = "move-assign"
    /\ handle_call.slot # handle_call.from
    /\ handle_call.fd # kInvalidFd
    /\ closes[handle_call.fd] = 1
    /\ isValid(pmu_groups[handle_call.slot].fds_)
    /\ pmu_groups[handle_call.from].fds_ = InvalidFds

\* the last call was a PmuGroup::create that failed
GroupCreateFailed ==
    handle_call'.object = "PmuGroup" /\ handle_call'.op = "create" /\ handle_call'.fail_at >= 1

\* C22: when the perf_event_open of the k-th counter of PmuGroup::create fails, the
\* k-1 descriptors opened before it are each closed exactly once by the time the
\* call returns, no other descriptor is closed, no PmuGroup comes to exist, and the
\* error returned is the one errnoToPmuError gives for the errno of the failing open.
C22_PartialCreateReleasesWhatItOpened ==
    [][GroupCreateFailed =>
         /\ Len(closes') = Len(closes) + handle_call'.fail_at - 1
         /\ \A fd \in 1..Len(closes) : closes'[fd] = closes[fd]
         /\ \A fd \in (Len(closes) + 1)..Len(closes') : closes'[fd] = 1
         /\ pmu_groups' = pmu_groups
         /\ handle_call'.result = errnoToPmuError(handle_call'.errno)]_vars

\* the open of branch_misses failed for want of descriptors while another group
\* was in use: the four descriptors before it are closed, the other group's are not
C22_Witness ==
    /\ handle_call.object = "PmuGroup"
    /\ handle_call.op = "create"
    /\ handle_call.fail_at = kCounterCount
    /\ handle_call.errno = "EMFILE"
    /\ handle_call.result = "TooManyEvents"
    /\ Len(closes) = 2 * kCounterCount - 1
    /\ \A fd \in (kCounterCount + 1)..Len(closes) : closes[fd] = 1
    /\ \E g \in GroupObjects : isValid(pmu_groups[g].fds_)
    /\ ~pmu_groups[handle_call.slot].alive

\* a PmuGroup or PmuCounter within its lifetime that a move has emptied
MovedFromGroup(g) == pmu_groups[g].alive /\ pmu_groups[g].fds_ = InvalidFds
MovedFromCounter(c) == pmu_counters[c].alive /\ pmu_counters[c].fd_ = kInvalidFd

\* C23: read, enable, disable and reset on a moved-from PmuGroup or PmuCounter
\* return InvalidState and hand no descriptor to the kernel; start() and
\* setTargetPid() on a moved-from MigrationTracker return InvalidState and poll()
\* returns -1, none of them changing the tracker, the program or the ring buffer;
\* and a moved-from object reports isValid() and isRunning() false.
C23_MovedFromHandlesFailWithoutSideEffects ==
    /\ [][(/\ handle_call'.object = "PmuGroup"
            /\ handle_call'.op \in HandleOps
            /\ MovedFromGroup(handle_call'.slot)) =>
               /\ handle_call'.result = "InvalidState"
               /\ handle_call'.fd = kInvalidFd
               /\ UNCHANGED <<pmu_groups, closes>>]_vars
    /\ [][(/\ handle_call'.object = "PmuCounter"
            /\ handle_call'.op \in HandleOps
            /\ MovedFromCounter(handle_call'.slot)) =>
               /\ handle_call'.result = "InvalidState"
               /\ handle_call'.fd = kInvalidFd
               /\ UNCHANGED <<pmu_counters, closes>>]_vars
    /\ [][(tracker_call'.op \in {"start", "setTargetPid"} /\ ~loader_.skel) =>
               /\ tracker_call'.result = "InvalidState"
               /\ UNCHANGED <<loader_, tracker_running_, migration_config, events>>]_vars
    /\ [][(tracker_call'.op = "poll" /\ ~ring_buf_.valid) =>
               /\ tracker_call'.result = -1
               /\ UNCHANGED <<events, delivered, event_count_>>]_vars
    /\ [][(HandleMoved /\ handle_call'.object = "PmuGroup") =>
               ~isValid(pmu_groups'[handle_call'.from].fds_)]_vars
    /\ [][(HandleMoved /\ handle_call'.object = "PmuCounter") =>
               ~(pmu_counters'[handle_call'.from].fd_ # kInvalidFd)]_vars
    /\ [](tracker_call.op = "move" =>
            ~tracker_running_ /\ ~(loader_.skel /\ loader_.attached))

\* a read on a moved-from group returned InvalidState while the group it was moved
\* into holds the descriptors, and start() on a moved-from tracker returned InvalidState
C23_Witness ==
    /\ handle_call.object = "PmuGroup"
    /\ handle_call.op = "read"
    /\ MovedFromGroup(handle_call.slot)
    /\ handle_call.result = "InvalidState"
    /\ \E g \in GroupObjects : isValid(pmu_groups[g].fds_)
    /\ \E c \in CounterObjects : MovedFromCounter(c)
    /\ tracker_call = [op |-> "start", result |-> "InvalidState"]
    /\ ~loader_.skel
    /\ ~ring_buf_.valid

(***************************************************************************)
(* EbpfLoader and MigrationTracker: classification of attach failures.     *)
(***************************************************************************)
\* C24: when attaching the loaded program fails, attach() and start() return
\* PermissionDenied for EPERM and EACCES and AttachFailed for any other errno, and
\* the loader stays not attached and the tracker not running.
C24_AttachFailureIsClassified ==
    /\ [][\A err \in AttachErrnos \ {"none"} :
            (loaderAttach(err) /\ ebpf_loader.skel /\ ~ebpf_loader.attached)
            => (/\ loader_call'.result =
                     IF err \in {"EPERM", "EACCES"} THEN "PermissionDenied"
                     ELSE "AttachFailed"
                /\ ~ebpf_loader'.attached)]_vars
    /\ [][\A err \in AttachErrnos \ {"none"} :
            (trackerStart(err) /\ loader_.skel /\ ~tracker_running_)
            => (/\ tracker_call'.result =
                     IF err \in {"EPERM", "EACCES"} THEN "PermissionDenied"
                     ELSE "AttachFailed"
                /\ ~loader_'.attached
                /\ ~tracker_running_')]_vars

(***************************************************************************)
(* Topology: properties of the CPU-list parser.                            *)
(***************************************************************************)
\* text is the decimal representation of a CpuId value
IsNumberText(text) ==
    /\ text # <<>>
    /\ \A i \in 1..Len(text) : text[i] \in Digits
    /\ DecimalValue(text) <= CpuIdMax

\* text is "a-b" for two CpuId values a and b: a is RangeLow, b is RangeHigh
IsRangeText(text) ==
    \E d \in 1..Len(text) :
        /\ text[d] = "-"
        /\ IsNumberText(SubSeq(text, 1, d - 1))
        /\ IsNumberText(SubSeq(text, d + 1, Len(text)))

RangeLow(text) == DecimalValue(SubSeq(text, 1, find(text, "-", 1) - 1))
RangeHigh(text) == DecimalValue(SubSeq(text, find(text, "-", 1) + 1, Len(text)))

\* the sequence a, a+1, ..., b
Upto(a, b) == [i \in 1..(b - a + 1) |-> a + i - 1]

\* text is a number, or a range "a-b" with a <= b; Expansion is what it stands for
IsElementText(text) ==
    IsNumberText(text) \/ (IsRangeText(text) /\ RangeLow(text) <= RangeHigh(text))

Expansion(text) ==
    IF IsNumberText(text) THEN <<DecimalValue(text)>>
    ELSE Upto(RangeLow(text), RangeHigh(text))

\* text is a comma-separated list of such elements; ListExpansion concatenates
\* their expansions in the order of the text
RECURSIVE IsListText(_)
IsListText(text) ==
    IF find(text, ",", 1) = npos THEN IsElementText(text)
    ELSE /\ IsElementText(SubSeq(text, 1, find(text, ",", 1) - 1))
         /\ IsListText(SubSeq(text, find(text, ",", 1) + 1, Len(text)))

RECURSIVE ListExpansion(_)
ListExpansion(text) ==
    IF find(text, ",", 1) = npos THEN Expansion(text)
    ELSE Expansion(SubSeq(text, 1, find(text, ",", 1) - 1))
           \o ListExpansion(SubSeq(text, find(text, ",", 1) + 1, Len(text)))

\* C27: for CpuId values a <= b, parseCpuList("a-b") returns exactly a, a+1, ..., b;
\* for a > b it returns ParseError; and for a comma-separated list of numbers and
\* ranges it returns the concatenation of their expansions in the order of the
\* text, duplicates kept.
C27_RangesExpandInOrder ==
    parse_result # NoResult =>
        /\ (IsRangeText(content) /\ RangeLow(content) <= RangeHigh(content)) =>
               parse_result = Parsed("ok", Upto(RangeLow(content), RangeHigh(content)))
        /\ (IsRangeText(content) /\ RangeLow(content) > RangeHigh(content)) =>
               parse_result = Parsed("ParseError", <<>>)
        /\ IsListText(content) => parse_result = Parsed("ok", ListExpansion(content))

\* the texts between the commas of text, in order
RECURSIVE Elements(_)
Elements(text) ==
    IF find(text, ",", 1) = npos THEN <<text>>
    ELSE <<SubSeq(text, 1, find(text, ",", 1) - 1)>>
           \o Elements(SubSeq(text, find(text, ",", 1) + 1, Len(text)))

\* the number of dashes in text
Dashes(text) == Cardinality({i \in 1..Len(text) : text[i] = "-"})

\* empty or whitespace-only input; an empty element (leading comma, adjacent
\* commas) or a trailing comma; a negative number; an element with more than one
\* dash; a character that is not a digit, a dash, a comma or whitespace
IsMalformed(text) ==
    \/ trim(text) = <<>>
    \/ \E i \in 1..Len(Elements(trim(text))) :
          LET element == trim(Elements(trim(text))[i])
          IN  \/ element = <<>>
              \/ element[1] = "-"
              \/ Dashes(element) > 1
    \/ \E i \in 1..Len(text) : text[i] \notin Digits \cup {"-", ","} \cup kWhitespace

\* C28: parseCpuList returns ParseError, and no list, for empty and whitespace-only
\* input, for an empty element, a trailing comma, a negative number, an element
\* with more than one dash and for any character that is not part of the format.
C28_MalformedListsAreRejected ==
    (parse_result # NoResult /\ IsMalformed(content)) =>
        parse_result = Parsed("ParseError", <<>>)

(***************************************************************************)
(* Topology: properties of the TopologyMap and of the classification.      *)
(***************************************************************************)
\* list is sorted ascending and has no duplicates
StrictlyAscending(list) == \A i \in 1..(Len(list) - 1) : list[i] < list[i + 1]

\* the lookup table of map holds type for the CPU c
MapsTo(map, c, type) == c < Len(map.cpu_to_type_) /\ map.cpu_to_type_[c + 1] = type

\* C25: in every TopologyMap, built by the constructor or by loadFromSysfs,
\* p_cores and e_cores are sorted ascending without duplicates and disjoint, and
\* the lookup table holds PCore for every id of p_cores and ECore for every id of
\* e_cores.
C25_MapInvariant ==
    topology.state = "built" =>
        /\ StrictlyAscending(topology.p_cores_)
        /\ StrictlyAscending(topology.e_cores_)
        /\ Range(topology.p_cores_) \cap Range(topology.e_cores_) = {}
        /\ \A c \in Range(topology.p_cores_) : MapsTo(topology, c, "PCore")
        /\ \A c \in Range(topology.e_cores_) : MapsTo(topology, c, "ECore")

\* the first line of a file, as std::getline reads it
FirstLine(file) ==
    IF find(file.bytes, "\n", 1) = npos THEN file.bytes
    ELSE SubSeq(file.bytes, 1, find(file.bytes, "\n", 1) - 1)

\* the content of a file that is present does not parse as a CPU list
FailsToParse(file) == file.bytes = <<>> \/ parseCpuList(FirstLine(file)).status = "ParseError"

\* C26: loadFromSysfs with the P-core file present returns NotHybridCpu when the
\* E-core file is absent, ParseError when both files are present and the content
\* of one of them (an empty file included) does not parse as a CPU list, and the
\* map built from the two parsed lists when both parse.
C26_PrimaryProtocol ==
    (topology_call.op = "loadFromSysfs" /\ topology_call.p_file.exists) =>
        /\ ~topology_call.e_file.exists => topology_call.result = "NotHybridCpu"
        /\ (/\ topology_call.e_file.exists
            /\ FailsToParse(topology_call.p_file) \/ FailsToParse(topology_call.e_file))
              => topology_call.result = "ParseError"
        /\ (/\ topology_call.e_file.exists
            /\ ~FailsToParse(topology_call.p_file)
            /\ ~FailsToParse(topology_call.e_file))
              => /\ topology_call.result = "ok"
                 /\ topology.state = "built"
                 /\ topology.p_cores_ = parseCpuList(FirstLine(topology_call.p_file)).value
                 /\ topology.e_cores_ = parseCpuList(FirstLine(topology_call.e_file)).value

\* C29: on a map built from disjoint lists, getCoreType returns PCore for every id
\* of p_cores, ECore for every id of e_cores and InvalidCpuId for every other id
\* (a gap below the largest listed id, an id above it, any id when both lists
\* are empty); isHybrid() is true exactly when both lists are non-empty.
C29_LookupFollowsTheLists ==
    (/\ topology.state = "built"
     /\ Range(topology.p_cores_) \cap Range(topology.e_cores_) = {}) =>
        /\ topology_call.op = "getCoreType" =>
              topology_call.result =
                 IF topology_call.cpu_id \in Range(topology.p_cores_) THEN "PCore"
                 ELSE IF topology_call.cpu_id \in Range(topology.e_cores_) THEN "ECore"
                 ELSE "InvalidCpuId"
        /\ isHybrid(topology) <=> (topology.p_cores_ # <<>> /\ topology.e_cores_ # <<>>)

\* the migration type of a pair of core types
PairType(src_type, dst_type) ==
    CASE src_type = "PCore" /\ dst_type = "PCore" -> "PToP"
      [] src_type = "PCore" /\ dst_type = "ECore" -> "PToE"
      [] src_type = "ECore" /\ dst_type = "PCore" -> "EToP"
      [] src_type = "ECore" /\ dst_type = "ECore" -> "EToE"

\* C30: classifyMigration returns Unknown when the lookup of src_cpu or of dst_cpu
\* gives InvalidCpuId, and otherwise the type of the pair of core types looked up:
\* (P,P) PToP, (P,E) PToE, (E,P) EToP, (E,E) EToE; the call leaves the topology and
\* the event as they were.
C30_ClassificationFollowsTheLookups ==
    /\ [](topology_call.op = "classifyMigration" =>
            LET src_type == getCoreType(topology, topology_call.event.src_cpu)
                dst_type == getCoreType(topology, topology_call.event.dst_cpu)
            IN  topology_call.result =
                  IF src_type = "InvalidCpuId" \/ dst_type = "InvalidCpuId" THEN "Unknown"
                  ELSE PairType(src_type, dst_type))
    /\ [][topology_call'.op = "classifyMigration" =>
            /\ topology' = topology
            /\ topology_call'.event \in ClassifiedEvents]_vars

\* a migration from an E-core to a P-core of a hybrid map was classified EToP
C30_Witness ==
    /\ topology_call.op = "classifyMigration"
    /\ topology_call.result = "EToP"
    /\ topology_call.event.src_cpu \in Range(topology.e_cores_)
    /\ topology_call.event.dst_cpu \in Range(topology.p_cores_)
    /\ isHybrid(topology)

(***************************************************************************)
(* EventStore: insertion among equal timestamps, conservation.             *)
(***************************************************************************)
\* inserting e into s gave t, with e behind every element of s that has e's timestamp
InsertedAfterEquals(s, e, t) ==
    \E pos \in 1..(Len(s) + 1) :
        /\ t = insert(s, pos, e)
        /\ \A i \in pos..Len(s) : s[i].timestamp_ns # e.timestamp_ns

\* the argument of the last addMigration call
AddedMigration(call) ==
    [timestamp_ns |-> call.start_ns, pid |-> 1, tid |-> call.tid,
     src_cpu |-> 0, dst_cpu |-> 1, comm |-> "app"]

\* the argument of the last addPmuSample call
AddedPmuSample(call) ==
    [timestamp_ns |-> call.start_ns, tid |-> call.tid, cpu_id |-> 0,
     instructions |-> 0, cycles |-> 0, llc_misses |-> 0,
     llc_references |-> 0, branch_misses |-> 0]

\* C31: an addMigration (addPmuSample) call places the new element after all
\* stored elements with the same timestamp_ns, so that elements with equal
\* timestamps appear in the order in which they were inserted.
C31_EqualTimestampsKeepInsertionOrder ==
    /\ [][(store_call'.op = "addMigration" /\ migrations_' # migrations_) =>
            InsertedAfterEquals(migrations_, AddedMigration(store_call'), migrations_')]_vars
    /\ [][(store_call'.op = "addPmuSample" /\ pmu_samples_' # pmu_samples_) =>
            InsertedAfterEquals(pmu_samples_, AddedPmuSample(store_call'), pmu_samples_')]_vars

\* the number of calls counted in a history of passed events
RECURSIVE Total(_, _)
Total(counts, S) ==
    IF S = {} THEN 0
    ELSE LET e == CHOOSE x \in S : TRUE
         IN  counts[e] + Total(counts, S \ {e})

\* the sequence s holds each event as often as it was passed, and nothing else
HoldsExactly(s, counts, S) ==
    /\ \A i \in 1..Len(s) : s[i] \in S
    /\ \A e \in S : Count(s, e) = counts[e]
    /\ Len(s) = Total(counts, S)

\* C39: the stored migrations are, as a multiset, exactly the events passed to
\* addMigration since construction or the last clear(), so migrationCount() is the
\* number of those calls; likewise for PMU samples.  addMigration leaves the PMU
\* sequence unchanged, addPmuSample the migration sequence, a query both, and
\* clear() empties both.
C39_StoreHoldsExactlyWhatWasAdded ==
    /\ [](/\ HoldsExactly(migrations_, passed.migrations, MigrationEvent)
          /\ HoldsExactly(pmu_samples_, passed.pmu_samples, PmuSample))
    /\ [][store_call'.op = "addMigration" => pmu_samples_' = pmu_samples_]_vars
    /\ [][store_call'.op = "addPmuSample" => migrations_' = migrations_]_vars
    /\ [][store_call'.op \in {"migrationsInRange", "pmuBeforeMigration", "pmuAfterMigration"} =>
            (migrations_' = migrations_ /\ pmu_samples_' = pmu_samples_)]_vars
    /\ [][store_call'.op = "clear" => (migrations_' = <<>> /\ pmu_samples_' = <<>>)]_vars

\* the same migration was added twice next to a stored PMU sample, and both copies
\* are stored
C39_Witness ==
    /\ store_call.op = "addMigration"
    /\ \E e \in MigrationEvent : passed.migrations[e] = 2 /\ Count(migrations_, e) = 2
    /\ Len(pmu_samples_) = 1

(***************************************************************************)
(* PmuSampler: read failures in the sampling loop.                         *)
(***************************************************************************)
\* C32: a failed group read in an iteration of the sampling loop drops only that
\* sample (the callback is not invoked and the sample counter is not incremented
\* for it) and the loop goes on: the worker sleeps and returns to the loop
\* condition, and a later successful read is delivered and counted; a read failure
\* neither ends the worker nor clears the running flag.
C32_FailedReadDropsOneSample ==
    /\ [][(sampling_thread_ = "read" /\ sampling_thread_' \notin {"read", "callback"}) =>
            /\ sampling_thread_' = "sleep"
            /\ callbacks' = callbacks
            /\ sample_count_' = sample_count_
            /\ running_' = running_
            /\ stop_requested' = stop_requested
            /\ read_failed']_vars
    /\ [][(read_failed /\ sampling_thread_ = "sleep" /\ sampling_thread_' # "sleep") =>
            sampling_thread_' = "check"]_vars
    /\ [][(read_failed /\ sampling_thread_ = "callback" /\ sampling_thread_' # "callback") =>
            (sampling_thread_' = "count" /\ callbacks' = callbacks + 1)]_vars
    /\ [][(read_failed /\ sampling_thread_ = "count" /\ sampling_thread_' # "count") =>
            (sampling_thread_' = "sleep" /\ sample_count_' = sample_count_ + 1)]_vars
    /\ [][(sampling_thread_ \in WorkerAlive /\ sampling_thread_' \notin WorkerAlive) =>
            (stop_requested /\ sampling_thread_ = "check")]_vars
    /\ [][(running_ /\ ~running_') => ctl_pc = "disabling"]_vars

\* in a session in which a read has failed, a later read succeeded and its sample
\* is about to be counted, on top of one delivered before
C32_Witness ==
    /\ read_failed
    /\ running_
    /\ ~stop_requested
    /\ sampling_thread_ = "count"
    /\ callbacks = sample_count_ + 1
    /\ sample_count_ >= 1

(***************************************************************************)
(* PmuGroup::read: properties.                                             *)
(***************************************************************************)
\* C33: PmuGroup::read returns a reading only when the kernel delivered the whole
\* group buffer (the count word and all five values) with count 5, and the reading
\* then holds the kernel's values; a failed read, a short read or another count
\* yields ReadFailed on a valid group, and no reading holds an unread (zero) value.
C33_ReadingOnlyFromWholeBuffer ==
    /\ read_call.returned.result = "ok" =>
          /\ read_call.valid
          /\ read_call.bytes_read = GroupReadSize
          /\ read_call.kernel.nr = kCounterCount
          /\ read_call.returned.reading =
                [cycles |-> read_call.kernel.values[1],
                 instructions |-> read_call.kernel.values[2],
                 llc_loads |-> read_call.kernel.values[3],
                 llc_load_misses |-> read_call.kernel.values[4],
                 branch_misses |-> read_call.kernel.values[5]]
    /\ (/\ read_call.object # "none"
        /\ read_call.valid
        /\ \/ read_call.bytes_read < GroupReadSize
           \/ read_call.kernel.nr # kCounterCount) =>
          read_call.returned = ReadResult("ReadFailed", NoReading)

(***************************************************************************)
(* The ring buffer: order of delivery.                                     *)
(***************************************************************************)
\* position of record r in the sequence of records s (0: not in it)
PositionIn(s, r) ==
    IF \E i \in 1..Len(s) : s[i] = r THEN CHOOSE i \in 1..Len(s) : s[i] = r ELSE 0

\* no record occurs twice in s
NoRepeats(s) == \A i \in 1..Len(s) : \A j \in 1..Len(s) : s[i] = s[j] => i = j

\* every record handed over was submitted before, and none was handed over twice
HandedOnceAfterSubmit ==
    /\ NoRepeats(handed)
    /\ \A i \in 1..Len(handed) : PositionIn(submitted, handed[i]) # 0
    /\ \A i \in 1..Len(ring_slots) : PositionIn(handed, ring_slots[i].record) = 0

\* C34 as stated: poll() hands the records to ringBufferCallback in the order in
\* which the handlers submitted them, each submitted record at most once and none
\* before it was submitted.
C34_Original_HandedInSubmitOrder ==
    /\ HandedOnceAfterSubmit
    /\ \A i \in 1..Len(handed) : \A j \in 1..Len(handed) :
           i < j => PositionIn(submitted, handed[i]) < PositionIn(submitted, handed[j])

\* C34 amended: poll() hands the records to ringBufferCallback in the order in
\* which the handlers reserved them, without gaps; for two records of the same CPU
\* this is the order in which they were submitted.  Each submitted record is
\* handed over at most once and none before it was submitted.
C34_HandedInReserveOrder ==
    /\ HandedOnceAfterSubmit
    /\ \A i \in 1..Len(handed) : handed[i] = i
    /\ \A i \in 1..Len(submitted) : \A j \in 1..Len(submitted) :
           (i < j /\ reserved[submitted[i]] = reserved[submitted[j]]) =>
               submitted[i] < submitted[j]

\* two records reserved on different CPUs were submitted in the opposite order and
\* both have been handed over
C34_Witness ==
    /\ Len(handed) >= 2
    /\ reserved[handed[1]] # reserved[handed[2]]
    /\ PositionIn(submitted, handed[2]) < PositionIn(submitted, handed[1])

(***************************************************************************)
(* MigrationTracker objects: release order, running and attached.          *)
(***************************************************************************)
\* the place of a release step in the order detach, free the consumer, destroy
Rank(step) ==
    CASE step.step = "detach" -> 1
      [] step.step = "ring_buffer__free" -> 2
      [] step.step = "destroy" -> 3

\* the steps named step in a sequence of release steps
StepsNamed(steps, step) == {i \in 1..Len(steps) : steps[i].step = step}

\* the release steps are what t held, each once, in the order detach, free, destroy
ReleasesInOrder(steps, t) ==
    /\ \A i \in 1..Len(steps) : \A j \in 1..Len(steps) : i < j => Rank(steps[i]) < Rank(steps[j])
    /\ Cardinality(StepsNamed(steps, "detach")) = IF t.running_ THEN 1 ELSE 0
    /\ Cardinality(StepsNamed(steps, "ring_buffer__free")) = IF t.ring_buf_ # 0 THEN 1 ELSE 0
    /\ Cardinality(StepsNamed(steps, "destroy")) = IF t.loader_.skel THEN 1 ELSE 0
    /\ \A i \in StepsNamed(steps, "ring_buffer__free") : steps[i].id = t.ring_buf_
    /\ \A i \in 1..Len(steps) :
           steps[i].step # "ring_buffer__free" => steps[i].id = t.loader_.id

\* the tracker objects that hold the program with this number
HoldersOfProgram(id) ==
    {t \in TrackerObjects : trackers[t].alive /\ trackers[t].loader_.id = id}

\* C35: the destructor, and move-assignment for what the destination held,
\* detach the program first (if the tracker was running), then free the ring
\* buffer consumer, then destroy the program handle, each step once; over the
\* whole run no consumer is freed twice and no handle destroyed twice, and what no
\* object holds any more was released; a moved-from tracker releases nothing
\* when it is destroyed.
C35_ReleaseOrder ==
    /\ [][(life_call'.op = "destroy") =>
            ReleasesInOrder(released', trackers[life_call'.object])]_vars
    /\ [][(life_call'.op = "moveAssign" /\ life_call'.from # life_call'.object) =>
            ReleasesInOrder(released', trackers[life_call'.object])]_vars
    /\ [][(/\ life_call'.op = "destroy"
           /\ ~trackers[life_call'.object].loader_.skel
           /\ trackers[life_call'.object].ring_buf_ = 0) =>
            (released' = <<>> /\ bpf_objects' = bpf_objects)]_vars
    /\ [](\A id \in 1..Len(bpf_objects) :
            /\ bpf_objects[id].ring_frees <= 1
            /\ bpf_objects[id].destroys <= 1
            /\ Cardinality(HoldersOfProgram(id)) <= 1
            /\ HoldersOfProgram(id) = {} <=>
                  (bpf_objects[id].ring_frees = 1 /\ bpf_objects[id].destroys = 1))

\* a running tracker was the destination of a move-assignment from another
\* running tracker: it detached, freed and destroyed what it held, in this order
C35_Witness ==
    /\ life_call.op = "moveAssign"
    /\ life_call.from # life_call.object
    /\ life_call.was_running
    /\ Len(released) = 3
    /\ released[1].step = "detach"
    /\ released[3].step = "destroy"
    /\ trackers[life_call.object].running_
    /\ bpf_objects[released[1].id].destroys = 1

\* C38: for every tracker object, isRunning() equals isAttached() of the loader
\* it owns, after any sequence of create, start, stop, move construction and
\* move assignment; a start() on a tracker that is not running attaches the
\* program, and the tracker is running afterwards exactly when that attach
\* succeeded, whether or not an earlier attach had failed.
C38_RunningIffAttached ==
    /\ \A t \in TrackerObjects : trackers[t].running_ = trackers[t].loader_.attached
    /\ (/\ life_call.op = "start"
        /\ ~life_call.was_running
        /\ trackers[life_call.object].loader_.skel) =>
          /\ trackers[life_call.object].running_ <=> (life_call.errno = "none")
          /\ life_call.result =
                IF life_call.errno = "none" THEN "ok" ELSE errnoToEbpfError(life_call.errno)

\* an attach has just failed on a tracker that is left not running, next to a
\* moved-from tracker object and after another program was destroyed
C38_Witness ==
    /\ life_call.op = "start"
    /\ life_call.result = "PermissionDenied"
    /\ ~trackers[life_call.object].running_
    /\ ~trackers[life_call.object].loader_.attached
    /\ \E t \in TrackerObjects : trackers[t].alive /\ ~trackers[t].loader_.skel
    /\ \E id \in 1..Len(bpf_objects) : bpf_objects[id].destroys = 1

(***************************************************************************)
(* PmuSampler objects moved while running: the worker and its object.      *)
(***************************************************************************)
\* the workers that have not been joined and work on the object o
WorkersOn(o) ==
    {w \in 1..Len(workers) : workers[w].pc # "joined" /\ workers[w].this = o}

\* C36: after a running sampler is move-constructed or move-assigned into
\* another object, the worker works on the destination, the object that now owns
\* its thread, group and callback, and never on the moved-from object or on an
\* object that has been destroyed.
C36_WorkerFollowsTheMove ==
    /\ last_access.worker # 0 =>
          (last_access.state = "owner" /\ last_access.object = last_access.owner)
    /\ \A w \in 1..Len(workers) :
          (workers[w].pc = "loop" /\ OwnerOf(w) # "none") => workers[w].this = OwnerOf(w)
    /\ ~crashed

\* C37: at any time at most one worker exists per sampler object and a worker
\* exists only while isRunning() of its sampler is true, over all sequences of
\* start, stop, move and destruction by the controller; a start() on a sampler
\* that is not running succeeds when reset and enable succeed, with the sample
\* counter at 0.
C37_AtMostOneWorkerPerSampler ==
    /\ [](\A o \in SamplerObjects : Cardinality(WorkersOn(o)) <= 1)
    /\ [](\A w \in 1..Len(workers) :
            workers[w].pc # "joined" =>
                (samplers[workers[w].this].alive /\ samplers[workers[w].this].running_))
    /\ [][(move_call'.op = "start" /\ Len(workers') > Len(workers)) =>
            /\ samplers'[move_call'.object].sample_count_ = 0
            /\ samplers'[move_call'.object].running_]_vars
    /\ [][(/\ move_call'.op = "start"
           /\ move_call' # move_call
           /\ ~samplers[move_call'.object].running_
           /\ samplers[move_call'.object].group_
           /\ move_call'.ioctl_ok) => move_call'.result = "ok"]_vars

\* the largest CPU id of the lists a map was built from
ListedMax(map) ==
    IF maxCpu(map.p_cores_) >= maxCpu(map.e_cores_) THEN maxCpu(map.p_cores_)
    ELSE maxCpu(map.e_cores_)

\* C40: parseCpuList returns on every input, the range ending at the largest CpuId
\* value included, so no loadFromSysfs is left without a result; and a map built
\* from lists that hold the largest CpuId value has a lookup table of max + 1
\* entries, not of 0 entries, and its construction writes inside the table.
C40_NoWrapAround ==
    /\ topology_call.op = "loadFromSysfs" => topology_call.result # "DoesNotReturn"
    /\ topology.state # "crashed"
    /\ (topology.state = "built" /\ topology.p_cores_ \o topology.e_cores_ # <<>>) =>
           Len(topology.cpu_to_type_) = ListedMax(topology) + 1
====
